---- MODULE Spec2Model ----
(***************************************************************************)
(* Batch-normalization host engine of driver/miopen_BatchNormHost.hpp:     *)
(* forward training, forward inference and backward pass, each in the      *)
(* per-activation and the spatial parameterization.                        *)
(*                                                                         *)
(* Numbers.  The host code computes in `double'.  The model computes in    *)
(* exact real arithmetic: a value is  rat + irr*sqrt(rad)  with rat, irr   *)
(* rationals (pairs <<numerator, denominator>> in lowest terms) and rad a  *)
(* square-free positive integer (rad = 1 exactly when irr = 0), so that    *)
(* the representation of a value is unique and `=' is equality of reals.   *)
(* sqrt() is therefore the real square root, not the identity and not a    *)
(* rounded one; rounding error of `double' is outside the model.  A        *)
(* division by zero yields the non-finite value NaN, which propagates.     *)
(***************************************************************************)
EXTENDS Integers, Sequences, FiniteSets, TLC

(***************************************************************************)
(* Bounds of the model.                                                    *)
(***************************************************************************)
\* largest extent of each of the four dimensions N, C, H, W
MaxDim == 2
\* largest number of tensor elements N*C*H*W
MaxElems == 4
\* largest number of host calls in one behaviour
MaxCalls == 2
\* the input tensor x is drawn from the patterns 0..MaxSeed
MaxSeed == 1

\* largest number of output-gradient positions of a Where launch
MaxWhereSize == 4

(***************************************************************************)
(* Rationals.                                                              *)
(***************************************************************************)
Abs(i) == IF i < 0 THEN -i ELSE i

RECURSIVE Gcd(_,_)
Gcd(a, b) == IF b = 0 THEN a ELSE Gcd(b, a % b)

\* the rational n/d in lowest terms with a positive denominator; d = 0 is
\* the non-finite value
QNorm(n, d) ==
    IF d = 0 THEN <<0, 0>>
    ELSE LET g == Gcd(Abs(n), Abs(d))
             s == IF d < 0 THEN -1 ELSE 1
         IN  <<(s * n) \div g, (s * d) \div g>>

QFinite(p) == p[2] # 0
QAdd(p, q) == QNorm(p[1] * q[2] + q[1] * p[2], p[2] * q[2])
QNeg(p) == <<-p[1], p[2]>>
QMul(p, q) == QNorm(p[1] * q[1], p[2] * q[2])
QInv(p) == QNorm(p[2], p[1])
QZero == <<0, 1>>

\* the integer square root of n, for n >= 0: the largest k in 0..46340 with
\* k*k <= n, found digit by digit in base 36 (46340 < 36^3)
ISqrt(n) ==
    LET Fits(k) == k <= 46340 /\ k * k <= n
        Digit(base, step) ==
            CHOOSE d \in 0..35 : Fits(base + step * d) /\ ~Fits(base + step * (d + 1))
    IN  CHOOSE r \in {k + Digit(k, 1) :
                      k \in {j + 36 * Digit(j, 36) : j \in {1296 * Digit(0, 1296)}}} : TRUE

\* the largest k with k*k dividing n, for n >= 1
SqPart(n) ==
    CHOOSE r \in {CHOOSE k \in squares : \A j \in squares : j <= k :
                  squares \in {{k \in 1..ISqrt(n) : n % (k * k) = 0}}} : TRUE

(***************************************************************************)
(* double, as exact reals  rat + irr*sqrt(rad).                            *)
(***************************************************************************)
NaN == [rat |-> <<0, 0>>, irr |-> <<0, 0>>, rad |-> 1]

IsFinite(x) == QFinite(x.rat) /\ QFinite(x.irr) /\ x.rad >= 1

\* canonical form: rad = 1 when the irrational part vanishes
RCanon(r, i, m) ==
    IF ~QFinite(r) \/ ~QFinite(i) \/ m < 1 THEN NaN
    ELSE IF i[1] = 0 THEN [rat |-> r, irr |-> QZero, rad |-> 1]
    ELSE [rat |-> r, irr |-> i, rad |-> m]

\* a rational constant n/d
Dbl(n, d) == RCanon(QNorm(n, d), QZero, 1)

\* the radicand of a sum or product; two different radicands do not fit the
\* representation and give rad 0, which IsFinite rejects
JoinRad(x, y) ==
    IF x.irr[1] = 0 THEN y.rad
    ELSE IF y.irr[1] = 0 \/ y.rad = x.rad THEN x.rad
    ELSE 0

RAdd(x, y) ==
    IF ~IsFinite(x) \/ ~IsFinite(y) THEN NaN
    ELSE RCanon(QAdd(x.rat, y.rat), QAdd(x.irr, y.irr), JoinRad(x, y))

RNeg(x) == IF ~IsFinite(x) THEN NaN ELSE [x EXCEPT !.rat = QNeg(@), !.irr = QNeg(@)]

RSub(x, y) == RAdd(x, RNeg(y))

RMul(x, y) ==
    IF ~IsFinite(x) \/ ~IsFinite(y) THEN NaN
    ELSE LET m == JoinRad(x, y)
         IN  RCanon(QAdd(QMul(x.rat, y.rat),
                         QMul(QMul(x.irr, y.irr), <<m, 1>>)),
                    QAdd(QMul(x.rat, y.irr), QMul(x.irr, y.rat)),
                    m)

\* 1/(a + b*sqrt(m)) = (a - b*sqrt(m)) / (a*a - b*b*m)
RInv(x) ==
    IF ~IsFinite(x) THEN NaN
    ELSE LET norm == QAdd(QMul(x.rat, x.rat),
                          QNeg(QMul(QMul(x.irr, x.irr), <<x.rad, 1>>)))
         IN  IF norm[1] = 0 THEN NaN
             ELSE RCanon(QMul(x.rat, QInv(norm)),
                         QNeg(QMul(x.irr, QInv(norm))),
                         x.rad)

RDiv(x, y) == RMul(x, RInv(y))

\* sqrt(p/d) = sqrt(p*d)/d = k*sqrt(m)/d  where p*d = k*k*m, m square-free;
\* defined for rational arguments >= 0
sqrt(x) ==
    CHOOSE r \in {IF ~IsFinite(a) \/ a.irr[1] # 0 \/ a.rat[1] < 0 THEN NaN
                  ELSE IF a.rat[1] = 0 THEN Dbl(0, 1)
                  ELSE CHOOSE s \in {IF (a.rat[1] \div (sp * sp)) * (a.rat[2] \div (sd * sd)) = 1
                                     THEN Dbl(sp * sd, a.rat[2])
                                     ELSE RCanon(QZero, QNorm(sp * sd, a.rat[2]),
                                                 (a.rat[1] \div (sp * sp))
                                                     * (a.rat[2] \div (sd * sd))) :
                                     sp \in {SqPart(a.rat[1])},
                                     sd \in {SqPart(a.rat[2])}} : TRUE :
                  a \in {x}} : TRUE

(***************************************************************************)
(* for (int i = lo; i < n; i++) acc = Body(acc, i);                        *)
(* The iterations i .. n-1 run in ascending order, each on the value the   *)
(* one before left; the range is evaluated as its lower half followed by   *)
(* its upper half.                                                         *)
(***************************************************************************)
RECURSIVE ForLoop(_,_,_,_)
ForLoop(Body(_,_), acc, i, n) ==
    IF i >= n THEN acc
    ELSE IF i + 1 = n THEN Body(acc, i)
    ELSE CHOOSE r \in {ForLoop(Body, half, (i + n) \div 2, n) :
                           half \in {ForLoop(Body, acc, i, (i + n) \div 2)}} : TRUE

\* a local variable of a host function: double v = init; Rest.  The
\* initialiser is evaluated once, where the variable is declared.
Local(init, Rest(_)) == CHOOSE r \in {Rest(v) : v \in {init}} : TRUE

(***************************************************************************)
(* miopenBNFwdTrainPerActivationRunHost: the steps of one (c,h,w) group,   *)
(* adjIndex = in_cstride*cidx + width*row + column.                        *)
(***************************************************************************)
\* #1 calculate the mean: sum over the mini-batch, then /= double(n_batchs)
PerActTrainMean(n_batchs, in_nstride, in_ptr, adjIndex) ==
    RDiv(ForLoop(LAMBDA mean_accum, bidx :
                     RAdd(mean_accum, in_ptr[in_nstride * bidx + adjIndex]),
                 Dbl(0, 1), 0, n_batchs),
         Dbl(n_batchs, 1))

\* PerActTrainRunningMean with the two weights exchanged
PerActTrainRunningMean_SwappedWeights(runningmeanvar, runningMean, adjIndex, mean_accum, expAvgFactor) ==
    IF runningmeanvar
    THEN LET newRunMean == RMul(runningMean[adjIndex], expAvgFactor)
         IN  [runningMean EXCEPT ![adjIndex] =
                 RAdd(RMul(mean_accum, RSub(Dbl(1, 1), expAvgFactor)), newRunMean)]
    ELSE runningMean

\* if(runningmeanvar): newRunMean = runningMean*(1-expAvgFactor);
\* runningMean = mean_accum*expAvgFactor + newRunMean
PerActTrainRunningMean(runningmeanvar, runningMean, adjIndex, mean_accum, expAvgFactor) ==
    IF runningmeanvar
    THEN LET newRunMean == RMul(runningMean[adjIndex], RSub(Dbl(1, 1), expAvgFactor))
         IN  [runningMean EXCEPT ![adjIndex] = RAdd(RMul(mean_accum, expAvgFactor), newRunMean)]
    ELSE runningMean

\* PerActTrainVariance with the sum of squares taken about zero, not the mean
PerActTrainVariance_AboutZero(n_batchs, in_nstride, in_ptr, adjIndex, mean_accum) ==
    RDiv(ForLoop(LAMBDA variance_accum, bidx :
                     LET elem == in_ptr[in_nstride * bidx + adjIndex]
                     IN  RAdd(variance_accum, RMul(elem, elem)),
                 Dbl(0, 1), 0, n_batchs),
         Dbl(n_batchs, 1))

\* #2 calculate the variances: sum{ (x_i - mean)^2 }, then /= double(n_batchs)
PerActTrainVariance(n_batchs, in_nstride, in_ptr, adjIndex, mean_accum) ==
    RDiv(ForLoop(LAMBDA variance_accum, bidx :
                     LET elemStd == RSub(in_ptr[in_nstride * bidx + adjIndex], mean_accum)
                     IN  RAdd(variance_accum, RMul(elemStd, elemStd)),
                 Dbl(0, 1), 0, n_batchs),
         Dbl(n_batchs, 1))

\* PerActTrainRunningVariance without the n_batchs == 1 case
PerActTrainRunningVariance_AlwaysBessel(runningmeanvar, runningVariance, adjIndex, variance_accum, expAvgFactor, n_batchs) ==
    IF runningmeanvar
    THEN LET adjust == RMul(RDiv(Dbl(n_batchs, 1), Dbl(n_batchs - 1, 1)), variance_accum)
         IN  [runningVariance EXCEPT ![adjIndex] =
                 RAdd(RMul(expAvgFactor, runningVariance[adjIndex]),
                      RMul(RSub(Dbl(1, 1), expAvgFactor), adjust))]
    ELSE runningVariance

\* if(runningmeanvar): adjust = (n_batchs == 1) ? variance_accum
\*                              : n_batchs/(n_batchs-1)*variance_accum;
\* runningVariance = expAvgFactor*runningVariance + (1.0 - expAvgFactor)*adjust
PerActTrainRunningVariance(runningmeanvar, runningVariance, adjIndex, variance_accum, expAvgFactor, n_batchs) ==
    IF runningmeanvar
    THEN LET adjust == IF n_batchs = 1 THEN variance_accum
                       ELSE RMul(RDiv(Dbl(n_batchs, 1), Dbl(n_batchs - 1, 1)), variance_accum)
         IN  [runningVariance EXCEPT ![adjIndex] =
                 RAdd(RMul(expAvgFactor, runningVariance[adjIndex]),
                      RMul(RSub(Dbl(1, 1), expAvgFactor), adjust))]
    ELSE runningVariance

\* PerActTrainInvVar without the epsilon
PerActTrainInvVar_NoEpsilon(variance_accum, epsilon) ==
    RDiv(Dbl(1, 1), sqrt(variance_accum))

\* #3 add epsilon for numeric stability, sqr_root, and invert
PerActTrainInvVar(variance_accum, epsilon) ==
    RDiv(Dbl(1, 1), sqrt(RAdd(variance_accum, epsilon)))

\* if(savemeanvar) saveMean[adjIndex] = mean_accum;
\* if(savemeanvar) saveInvVariance[adjIndex] = elemInvVar
PerActTrainSave(savemeanvar, saved, adjIndex, value) ==
    IF savemeanvar THEN [saved EXCEPT ![adjIndex] = value] ELSE saved

\* #4 apply the normalization, #5 Gamma and Beta adjust, over the mini-batch
PerActTrainNormalize(n_batchs, in_nstride, in_ptr, out_ptr, scale_ptr, bias_ptr, adjIndex, mean_accum, elemInvVar) ==
    ForLoop(LAMBDA out, bidx :
                LET index == in_nstride * bidx + adjIndex
                    elemStd == RSub(in_ptr[index], mean_accum)
                    inhat == RMul(elemStd, elemInvVar)
                IN  [out EXCEPT ![index] =
                        RAdd(RMul(scale_ptr[adjIndex], inhat), bias_ptr[adjIndex])],
            out_ptr, 0, n_batchs)

\* the whole host call; the result holds every buffer the call may write
miopenBNFwdTrainPerActivationRunHost(n_batchs, channels, height, width, in_ptr, out_ptr, scale_ptr, bias_ptr, epsilon, savemeanvar, runningmeanvar, saveMean, saveInvVariance, runningMean, runningVariance, expAvgFactor) ==
    LET in_nstride == channels * height * width
        in_cstride == height * width
        Column(st, adjIndex) ==
            Local(PerActTrainMean(n_batchs, in_nstride, in_ptr, adjIndex),
                  LAMBDA mean_accum :
            Local(PerActTrainVariance(n_batchs, in_nstride, in_ptr, adjIndex, mean_accum),
                  LAMBDA variance_accum :
            Local(PerActTrainInvVar(variance_accum, epsilon),
                  LAMBDA elemInvVar :
                [out_ptr |-> PerActTrainNormalize(n_batchs, in_nstride, in_ptr, st.out_ptr,
                                                  scale_ptr, bias_ptr, adjIndex,
                                                  mean_accum, elemInvVar),
                 saveMean |-> PerActTrainSave(savemeanvar, st.saveMean, adjIndex, mean_accum),
                 saveInvVariance |-> PerActTrainSave(savemeanvar, st.saveInvVariance,
                                                     adjIndex, elemInvVar),
                 runningMean |-> PerActTrainRunningMean(runningmeanvar, st.runningMean,
                                                        adjIndex, mean_accum, expAvgFactor),
                 runningVariance |->
                     PerActTrainRunningVariance(runningmeanvar, st.runningVariance, adjIndex,
                                                variance_accum, expAvgFactor, n_batchs)])))
    IN  ForLoop(LAMBDA s1, cidx :
            ForLoop(LAMBDA s2, row :
                ForLoop(LAMBDA s3, column :
                            Column(s3, in_cstride * cidx + width * row + column),
                        s2, 0, width),
                s1, 0, height),
            [out_ptr |-> out_ptr, saveMean |-> saveMean,
             saveInvVariance |-> saveInvVariance, runningMean |-> runningMean,
             runningVariance |-> runningVariance],
            0, channels)

(***************************************************************************)
(* miopenBNFwdTrainSpatialRunHost (MIO_HEIRARCH_SEL == 0): the steps of    *)
(* one channel cidx.                                                       *)
(***************************************************************************)
\* SpatialTrainVisit stepping the batch by the image size
SpatialTrainVisit_ImageStride(n_batchs, height, width, in_nstride, in_cstride, cidx) ==
    ForLoop(LAMBDA v1, row :
        ForLoop(LAMBDA v2, column :
            LET imgIndex == width * row + column
                adjIndex == in_cstride * cidx + imgIndex
            IN  IF imgIndex < in_cstride
                THEN ForLoop(LAMBDA v3, bidx : Append(v3, in_cstride * bidx + adjIndex),
                             v2, 0, n_batchs)
                ELSE v2,
            v1, 0, width),
        <<>>, 0, height)

\* The loop nest  for row, for column, if(imgIndex < in_cstride) for bidx  of
\* the spatial training call: the sequence, in loop order, of the element
\* indices  index = in_nstride*bidx + in_cstride*cidx + imgIndex  it visits.
SpatialTrainVisit(n_batchs, height, width, in_nstride, in_cstride, cidx) ==
    ForLoop(LAMBDA v1, row :
        ForLoop(LAMBDA v2, column :
            LET imgIndex == width * row + column
                adjIndex == in_cstride * cidx + imgIndex
            IN  IF imgIndex < in_cstride
                THEN ForLoop(LAMBDA v3, bidx : Append(v3, in_nstride * bidx + adjIndex),
                             v2, 0, n_batchs)
                ELSE v2,
            v1, 0, width),
        <<>>, 0, height)

\* SpatialTrainMean dividing the sum by the batch size only
SpatialTrainMean_OverBatchOnly(visit, in_ptr, n_batchs, in_cstride) ==
    RDiv(ForLoop(LAMBDA mean_accum, k : RAdd(mean_accum, in_ptr[visit[k]]),
                 Dbl(0, 1), 1, Len(visit) + 1),
         Dbl(n_batchs, 1))

\* #1 calculate the mean over the loop nest, then mean_accum /= NHW
SpatialTrainMean(visit, in_ptr, n_batchs, in_cstride) ==
    RDiv(ForLoop(LAMBDA mean_accum, k : RAdd(mean_accum, in_ptr[visit[k]]),
                 Dbl(0, 1), 1, Len(visit) + 1),
         Dbl(in_cstride * n_batchs, 1))

\* SpatialTrainRunningMean adding the weighted mean to the undecayed
\* running mean
SpatialTrainRunningMean_NoDecay(runningmeanvar, runningMean, cidx, mean_accum, expAvgFactor) ==
    IF runningmeanvar
    THEN [runningMean EXCEPT ![cidx] = RAdd(RMul(mean_accum, expAvgFactor), runningMean[cidx])]
    ELSE runningMean

\* if(runningmeanvar): newRunMean = runningMean*(1.0-expAvgFactor);
\* runningMean = mean_accum*expAvgFactor + newRunMean
SpatialTrainRunningMean(runningmeanvar, runningMean, cidx, mean_accum, expAvgFactor) ==
    IF runningmeanvar
    THEN LET newRunMean == RMul(runningMean[cidx], RSub(Dbl(1, 1), expAvgFactor))
         IN  [runningMean EXCEPT ![cidx] = RAdd(RMul(mean_accum, expAvgFactor), newRunMean)]
    ELSE runningMean

\* #2 calculate the variances, using the out buffer as scratchpad for
\* (x_i - mean); the result holds the buffer and the sum before /= NHW
SpatialTrainVarianceLoop(visit, in_ptr, out_ptr, mean_accum) ==
    ForLoop(LAMBDA acc, k :
                LET index == visit[k]
                    elemStd == RSub(in_ptr[index], mean_accum)
                IN  [out_ptr |-> [acc.out_ptr EXCEPT ![index] = elemStd],
                     variance_accum |-> RAdd(acc.variance_accum, RMul(elemStd, elemStd))],
            [out_ptr |-> out_ptr, variance_accum |-> Dbl(0, 1)],
            1, Len(visit) + 1)

\* SpatialTrainRunningVariance blending in the biased variance
SpatialTrainRunningVariance_NoBessel(runningmeanvar, runningVariance, cidx, variance_accum, expAvgFactor, n_batchs, in_cstride) ==
    IF runningmeanvar
    THEN [runningVariance EXCEPT ![cidx] =
             RAdd(RMul(expAvgFactor, runningVariance[cidx]),
                  RMul(RSub(Dbl(1, 1), expAvgFactor), variance_accum))]
    ELSE runningVariance

\* adjust = (n_batchs*in_cstride == 1) ? variance_accum : NHW/(NHW-1.0)*variance_accum
SpatialTrainRunningVariance(runningmeanvar, runningVariance, cidx, variance_accum, expAvgFactor, n_batchs, in_cstride) ==
    IF runningmeanvar
    THEN LET NHW == Dbl(in_cstride * n_batchs, 1)
             adjust == IF n_batchs * in_cstride = 1 THEN variance_accum
                       ELSE RMul(RDiv(NHW, RSub(NHW, Dbl(1, 1))), variance_accum)
         IN  [runningVariance EXCEPT ![cidx] =
                 RAdd(RMul(expAvgFactor, runningVariance[cidx]),
                      RMul(RSub(Dbl(1, 1), expAvgFactor), adjust))]
    ELSE runningVariance

SpatialTrainInvVar(variance_accum, epsilon) ==
    RDiv(Dbl(1, 1), sqrt(RAdd(variance_accum, epsilon)))

\* SpatialTrainSave writing whatever the flag
SpatialTrainSave_Unconditional(savemeanvar, saved, cidx, value) ==
    [saved EXCEPT ![cidx] = value]

\* if(savemeanvar) saveMean[cidx] = mean_accum;
\* if(savemeanvar) saveInvVariance[cidx] = invertVar
SpatialTrainSave(savemeanvar, saved, cidx, value) ==
    IF savemeanvar THEN [saved EXCEPT ![cidx] = value] ELSE saved

\* SpatialTrainNormalize with the bias added before the scaling
SpatialTrainNormalize_BiasInsideScale(visit, out_ptr, scale_ptr, bias_ptr, cidx, invertVar) ==
    ForLoop(LAMBDA out, k :
                LET index == visit[k]
                IN  [out EXCEPT ![index] =
                        RMul(scale_ptr[cidx],
                             RAdd(RMul(invertVar, out[index]), bias_ptr[cidx]))],
            out_ptr, 1, Len(visit) + 1)

\* #4 apply the normalization on the scratch values left in out_ptr
SpatialTrainNormalize(visit, out_ptr, scale_ptr, bias_ptr, cidx, invertVar) ==
    ForLoop(LAMBDA out, k :
                LET index == visit[k]
                IN  [out EXCEPT ![index] =
                        RAdd(RMul(scale_ptr[cidx], RMul(invertVar, out[index])),
                             bias_ptr[cidx])],
            out_ptr, 1, Len(visit) + 1)

miopenBNFwdTrainSpatialRunHost(n_batchs, channels, height, width, in_ptr, out_ptr, scale_ptr, bias_ptr, epsilon, savemeanvar, runningmeanvar, saveMean, saveInvVariance, runningMean, runningVariance, expAvgFactor) ==
    LET in_nstride == channels * height * width
        in_cstride == height * width
        NHW == Dbl(in_cstride * n_batchs, 1)
        Channel(st, cidx) ==
            LET visit == SpatialTrainVisit(n_batchs, height, width, in_nstride, in_cstride,
                                           cidx)
            IN  Local(SpatialTrainMean(visit, in_ptr, n_batchs, in_cstride),
                      LAMBDA mean_accum :
                Local(SpatialTrainVarianceLoop(visit, in_ptr, st.out_ptr, mean_accum),
                      LAMBDA pass2 :
                Local(RDiv(pass2.variance_accum, NHW),
                      LAMBDA variance_accum :
                Local(SpatialTrainInvVar(variance_accum, epsilon),
                      LAMBDA invertVar :
                    [out_ptr |-> SpatialTrainNormalize(visit, pass2.out_ptr, scale_ptr,
                                                       bias_ptr, cidx, invertVar),
                     saveMean |-> SpatialTrainSave(savemeanvar, st.saveMean, cidx,
                                                   mean_accum),
                     saveInvVariance |-> SpatialTrainSave(savemeanvar, st.saveInvVariance,
                                                          cidx, invertVar),
                     runningMean |-> SpatialTrainRunningMean(runningmeanvar, st.runningMean,
                                                             cidx, mean_accum, expAvgFactor),
                     runningVariance |->
                         SpatialTrainRunningVariance(runningmeanvar, st.runningVariance,
                                                     cidx, variance_accum, expAvgFactor,
                                                     n_batchs, in_cstride)]))))
    IN  ForLoop(Channel,
                [out_ptr |-> out_ptr, saveMean |-> saveMean,
                 saveInvVariance |-> saveInvVariance, runningMean |-> runningMean,
                 runningVariance |-> runningVariance],
                0, channels)

(***************************************************************************)
(* miopenBNFwdInferPerActivationRunHost.  The call writes out_ptr only; it *)
(* has no access to the saved or the running statistics.                   *)
(***************************************************************************)
\* if(estmeanvar): the supplied statistics of one (c,h,w) group
PerActInferEstimated(n_batchs, in_nstride, in_ptr, out_ptr, scale_ptr, bias_ptr, epsilon, estimatedMean, estimatedVariance, adjIndex) ==
    LET mean == estimatedMean[adjIndex]
        variance == estimatedVariance[adjIndex]
    IN  Local(RDiv(Dbl(1, 1), sqrt(RAdd(variance, epsilon))),
              LAMBDA elemInvVar :
            ForLoop(LAMBDA out, bidx :
                        LET index == in_nstride * bidx + adjIndex
                            elemStd == RSub(in_ptr[index], mean)
                            inhat == RMul(elemStd, elemInvVar)
                        IN  [out EXCEPT ![index] =
                                RAdd(RMul(scale_ptr[adjIndex], inhat), bias_ptr[adjIndex])],
                    out_ptr, 0, n_batchs))

\* else: mean, variance, inverse and normalization computed from the batch
PerActInferBatch(n_batchs, in_nstride, in_ptr, out_ptr, scale_ptr, bias_ptr, epsilon, adjIndex) ==
    Local(RDiv(ForLoop(LAMBDA acc, bidx :
                           RAdd(acc, in_ptr[in_nstride * bidx + adjIndex]),
                       Dbl(0, 1), 0, n_batchs),
               Dbl(n_batchs, 1)),
          LAMBDA mean_accum :
    Local(RDiv(ForLoop(LAMBDA acc, bidx :
                           LET elemStd == RSub(in_ptr[in_nstride * bidx + adjIndex],
                                               mean_accum)
                           IN  RAdd(acc, RMul(elemStd, elemStd)),
                       Dbl(0, 1), 0, n_batchs),
               Dbl(n_batchs, 1)),
          LAMBDA variance_accum :
    Local(RDiv(Dbl(1, 1), sqrt(RAdd(variance_accum, epsilon))),
          LAMBDA elemInvVar :
        ForLoop(LAMBDA out, bidx :
                    LET index == in_nstride * bidx + adjIndex
                        elemStd == RSub(in_ptr[index], mean_accum)
                        inhat == RMul(elemStd, elemInvVar)
                    IN  [out EXCEPT ![index] =
                            RAdd(RMul(scale_ptr[adjIndex], inhat), bias_ptr[adjIndex])],
                out_ptr, 0, n_batchs))))

miopenBNFwdInferPerActivationRunHost(n_batchs, channels, height, width, in_ptr, out_ptr, scale_ptr, bias_ptr, epsilon, estmeanvar, estimatedMean, estimatedVariance) ==
    LET in_nstride == channels * height * width
        in_cstride == height * width
    IN  ForLoop(LAMBDA o1, cidx :
            ForLoop(LAMBDA o2, row :
                ForLoop(LAMBDA o3, column :
                            LET adjIndex == in_cstride * cidx + width * row + column
                            IN  IF estmeanvar
                                THEN PerActInferEstimated(n_batchs, in_nstride, in_ptr, o3,
                                                          scale_ptr, bias_ptr, epsilon,
                                                          estimatedMean, estimatedVariance,
                                                          adjIndex)
                                ELSE PerActInferBatch(n_batchs, in_nstride, in_ptr, o3,
                                                      scale_ptr, bias_ptr, epsilon, adjIndex),
                        o2, 0, width),
                o1, 0, height),
            out_ptr, 0, channels)

(***************************************************************************)
(* miopenBNFwdInferSpatialRunHost (MIO_HEIRARCH_SEL == 0).                 *)
(***************************************************************************)
\* The loop nest  for row, for column, for bidx  of the spatial inference
\* call: the sequence, in loop order, of the element indices
\* index = in_nstride*bidx + in_cstride*cidx + width*row + column.
SpatialInferVisit(n_batchs, height, width, in_nstride, in_cstride, cidx) ==
    ForLoop(LAMBDA v1, row :
        ForLoop(LAMBDA v2, column :
            LET adjIndex == in_cstride * cidx + width * row + column
            IN  ForLoop(LAMBDA v3, bidx : Append(v3, in_nstride * bidx + adjIndex),
                        v2, 0, n_batchs),
            v1, 0, width),
        <<>>, 0, height)

\* SpatialInferEstimated with the mean of the batch in place of the supplied one
SpatialInferEstimated_BatchMean(visit, in_ptr, out_ptr, scale_ptr, bias_ptr, epsilon, estimatedMean, estimatedVariance, cidx) ==
    LET mean == RDiv(ForLoop(LAMBDA acc, k : RAdd(acc, in_ptr[visit[k]]),
                             Dbl(0, 1), 1, Len(visit) + 1),
                     Dbl(Len(visit), 1))
        variance == estimatedVariance[cidx]
    IN  Local(RDiv(Dbl(1, 1), sqrt(RAdd(variance, epsilon))),
              LAMBDA invertVar :
            ForLoop(LAMBDA out, k :
                        LET index == visit[k]
                            elemStd == RSub(in_ptr[index], mean)
                            inhat == RMul(elemStd, invertVar)
                        IN  [out EXCEPT ![index] =
                                RAdd(RMul(scale_ptr[cidx], inhat), bias_ptr[cidx])],
                    out_ptr, 1, Len(visit) + 1))

\* if(estmeanvar): the supplied statistics of one channel
SpatialInferEstimated(visit, in_ptr, out_ptr, scale_ptr, bias_ptr, epsilon, estimatedMean, estimatedVariance, cidx) ==
    LET mean == estimatedMean[cidx]
        variance == estimatedVariance[cidx]
    IN  Local(RDiv(Dbl(1, 1), sqrt(RAdd(variance, epsilon))),
              LAMBDA invertVar :
            ForLoop(LAMBDA out, k :
                        LET index == visit[k]
                            elemStd == RSub(in_ptr[index], mean)
                            inhat == RMul(elemStd, invertVar)
                        IN  [out EXCEPT ![index] =
                                RAdd(RMul(scale_ptr[cidx], inhat), bias_ptr[cidx])],
                    out_ptr, 1, Len(visit) + 1))

\* SpatialInferBatch normalizing the input instead of the scratch values
SpatialInferBatch_ReadsInput(visit, in_ptr, out_ptr, scale_ptr, bias_ptr, epsilon, cidx, n_batchs, in_cstride) ==
    Local(RDiv(ForLoop(LAMBDA acc, k : RAdd(acc, in_ptr[visit[k]]),
                       Dbl(0, 1), 1, Len(visit) + 1),
               Dbl(in_cstride * n_batchs, 1)),
          LAMBDA mean_accum :
    Local(ForLoop(LAMBDA acc, k :
                      LET index == visit[k]
                          elemStd == RSub(in_ptr[index], mean_accum)
                      IN  [out_ptr |-> [acc.out_ptr EXCEPT ![index] = elemStd],
                           variance_accum |->
                               RAdd(acc.variance_accum, RMul(elemStd, elemStd))],
                  [out_ptr |-> out_ptr, variance_accum |-> Dbl(0, 1)],
                  1, Len(visit) + 1),
          LAMBDA pass2 :
    Local(RDiv(pass2.variance_accum, Dbl(in_cstride * n_batchs, 1)),
          LAMBDA variance_accum :
    Local(RDiv(Dbl(1, 1), sqrt(RAdd(variance_accum, epsilon))),
          LAMBDA invertVar :
        ForLoop(LAMBDA out, k :
                    LET index == visit[k]
                        elemStd == in_ptr[index]
                        inhat == RMul(elemStd, invertVar)
                    IN  [out EXCEPT ![index] =
                            RAdd(RMul(scale_ptr[cidx], inhat), bias_ptr[cidx])],
                pass2.out_ptr, 1, Len(visit) + 1)))))

\* else: statistics of the batch, the out buffer being the scratchpad
SpatialInferBatch(visit, in_ptr, out_ptr, scale_ptr, bias_ptr, epsilon, cidx, n_batchs, in_cstride) ==
    Local(RDiv(ForLoop(LAMBDA acc, k : RAdd(acc, in_ptr[visit[k]]),
                       Dbl(0, 1), 1, Len(visit) + 1),
               Dbl(in_cstride * n_batchs, 1)),
          LAMBDA mean_accum :
    Local(ForLoop(LAMBDA acc, k :
                      LET index == visit[k]
                          elemStd == RSub(in_ptr[index], mean_accum)
                      IN  [out_ptr |-> [acc.out_ptr EXCEPT ![index] = elemStd],
                           variance_accum |->
                               RAdd(acc.variance_accum, RMul(elemStd, elemStd))],
                  [out_ptr |-> out_ptr, variance_accum |-> Dbl(0, 1)],
                  1, Len(visit) + 1),
          LAMBDA pass2 :
    Local(RDiv(pass2.variance_accum, Dbl(in_cstride * n_batchs, 1)),
          LAMBDA variance_accum :
    Local(RDiv(Dbl(1, 1), sqrt(RAdd(variance_accum, epsilon))),
          LAMBDA invertVar :
        ForLoop(LAMBDA out, k :
                    LET index == visit[k]
                        elemStd == out[index]
                        inhat == RMul(elemStd, invertVar)
                    IN  [out EXCEPT ![index] =
                            RAdd(RMul(scale_ptr[cidx], inhat), bias_ptr[cidx])],
                pass2.out_ptr, 1, Len(visit) + 1)))))

miopenBNFwdInferSpatialRunHost(n_batchs, channels, height, width, in_ptr, out_ptr, scale_ptr, bias_ptr, epsilon, estmeanvar, estimatedMean, estimatedVariance) ==
    LET in_nstride == channels * height * width
        in_cstride == height * width
        Channel(out, cidx) ==
            LET visit == SpatialInferVisit(n_batchs, height, width, in_nstride, in_cstride,
                                           cidx)
            IN  IF estmeanvar
                THEN SpatialInferEstimated(visit, in_ptr, out, scale_ptr, bias_ptr, epsilon,
                                           estimatedMean, estimatedVariance, cidx)
                ELSE SpatialInferBatch(visit, in_ptr, out, scale_ptr, bias_ptr, epsilon,
                                       cidx, n_batchs, in_cstride)
    IN  ForLoop(Channel, out_ptr, 0, channels)

(***************************************************************************)
(* miopenBNBwdPerActivationRunHost.  xhat is the call's local vector of    *)
(* n_batchs*in_cstride doubles, zero on construction.                      *)
(***************************************************************************)
\* first loop over the mini-batch of one (c,h,w) group: caches xhat and
\* accumulates into dbias_ptr, dscale_ptr, dxhat and dxhathat; then
\* dscale_ptr[adjIndex] /= double(n_batchs).  The text of the source is the
\* same on the saved-statistics branch and on the recomputed-statistics
\* branch (lines 701-716).
PerActBwdSums(n_batchs, in_nstride, in_cstride, x_ptr, dy_ptr, scale_ptr, adjIndex, imgIndex, mean, elemInvVar, st) ==
    LET acc == ForLoop(LAMBDA a, bidx :
                   LET index == in_nstride * bidx + adjIndex
                       xhat_index == in_cstride * bidx + imgIndex
                       elemStd == RSub(x_ptr[index], mean)
                       xh == RMul(elemStd, elemInvVar)
                       dyelem == dy_ptr[index]
                       tmp1 == RMul(scale_ptr[adjIndex], dyelem)
                   IN  [xhat |-> [a.xhat EXCEPT ![xhat_index] = xh],
                        dbias_ptr |-> [a.dbias_ptr EXCEPT ![adjIndex] = RAdd(@, dyelem)],
                        dscale_ptr |-> [a.dscale_ptr EXCEPT ![adjIndex] =
                                           RAdd(@, RMul(xh, dyelem))],
                        dxhat |-> RAdd(a.dxhat, tmp1),
                        dxhathat |-> RAdd(a.dxhathat, RMul(tmp1, xh))],
                   [xhat |-> st.xhat, dbias_ptr |-> st.dbias_ptr,
                    dscale_ptr |-> st.dscale_ptr, dxhat |-> Dbl(0, 1),
                    dxhathat |-> Dbl(0, 1)],
                   0, n_batchs)
    IN  [acc EXCEPT !.dscale_ptr[adjIndex] = RDiv(@, Dbl(n_batchs, 1))]

\* second loop over the mini-batch: tmp1 = xhat*dxhathat + dxhat;
\* tmp2 = n_batchs*dxhat - tmp1; tmp3 = elemInvVar/n_batchs; dx = tmp3*tmp2
\* (the same text at lines 718-725)
PerActBwdDx(n_batchs, in_nstride, in_cstride, dx_ptr, adjIndex, imgIndex, elemInvVar, xhat, dxhat, dxhathat) ==
    ForLoop(LAMBDA dx, bidx :
                LET index == in_nstride * bidx + adjIndex
                    xhat_index == in_cstride * bidx + imgIndex
                    tmp1 == RAdd(RMul(xhat[xhat_index], dxhathat), dxhat)
                    tmp2 == RSub(RMul(Dbl(n_batchs, 1), dxhat), tmp1)
                    tmp3 == RDiv(elemInvVar, Dbl(n_batchs, 1))
                IN  [dx EXCEPT ![index] = RMul(tmp3, tmp2)],
            dx_ptr, 0, n_batchs)

\* else branch: mean and 1/sqrt(variance + epsilon) recomputed from x
PerActBwdMean(n_batchs, in_nstride, x_ptr, adjIndex) ==
    RDiv(ForLoop(LAMBDA mean, bidx : RAdd(mean, x_ptr[in_nstride * bidx + adjIndex]),
                 Dbl(0, 1), 0, n_batchs),
         Dbl(n_batchs, 1))

PerActBwdInvVar(n_batchs, in_nstride, x_ptr, adjIndex, mean, epsilon) ==
    LET variance ==
            RDiv(ForLoop(LAMBDA acc, bidx :
                             LET elemStd == RSub(x_ptr[in_nstride * bidx + adjIndex], mean)
                             IN  RAdd(acc, RMul(elemStd, elemStd)),
                         Dbl(0, 1), 0, n_batchs),
                 Dbl(n_batchs, 1))
    IN  Local(variance, LAMBDA v : RDiv(Dbl(1, 1), sqrt(RAdd(v, epsilon))))

miopenBNBwdPerActivationRunHost(n_batchs, channels, height, width, x_ptr, dy_ptr, dx_ptr, scale_ptr, dscale_ptr, dbias_ptr, epsilon, savedmeanvar, savedMean, savedInvVariance) ==
    LET in_nstride == channels * height * width
        in_cstride == height * width
        Column(st, cidx, row, column) ==
            LET adjIndex == in_cstride * cidx + width * row + column
                imgIndex == width * row + column
            IN  Local(IF savedmeanvar THEN savedMean[adjIndex]
                      ELSE PerActBwdMean(n_batchs, in_nstride, x_ptr, adjIndex),
                      LAMBDA mean :
                Local(IF savedmeanvar THEN savedInvVariance[adjIndex]
                      ELSE PerActBwdInvVar(n_batchs, in_nstride, x_ptr, adjIndex, mean,
                                           epsilon),
                      LAMBDA elemInvVar :
                Local(PerActBwdSums(n_batchs, in_nstride, in_cstride, x_ptr, dy_ptr,
                                    scale_ptr, adjIndex, imgIndex, mean, elemInvVar, st),
                      LAMBDA sums :
                    [dx_ptr |-> PerActBwdDx(n_batchs, in_nstride, in_cstride, st.dx_ptr,
                                            adjIndex, imgIndex, elemInvVar, sums.xhat,
                                            sums.dxhat, sums.dxhathat),
                     dscale_ptr |-> sums.dscale_ptr,
                     dbias_ptr |-> sums.dbias_ptr,
                     xhat |-> sums.xhat])))
    IN  ForLoop(LAMBDA s1, cidx :
            ForLoop(LAMBDA s2, row :
                ForLoop(LAMBDA s3, column : Column(s3, cidx, row, column),
                        s2, 0, width),
                s1, 0, height),
            [dx_ptr |-> dx_ptr, dscale_ptr |-> dscale_ptr, dbias_ptr |-> dbias_ptr,
             xhat |-> [i \in 0..(n_batchs * in_cstride - 1) |-> Dbl(0, 1)]],
            0, channels)

(***************************************************************************)
(* miopenBNBwdSpatialRunHost (MIO_HEIRARCH_SEL == 0).                      *)
(***************************************************************************)
\* The loop nest  for row, for column, for bidx  of the spatial backward
\* call: the sequence, in loop order, of the pairs
\* index = in_nstride*bidx + Csubindex + width*row + column,
\* xhat_index = in_cstride*bidx + (width*row + column).
SpatialBwdVisit(n_batchs, height, width, in_nstride, in_cstride, cidx) ==
    ForLoop(LAMBDA v1, row :
        ForLoop(LAMBDA v2, column :
            LET adjIndex == in_cstride * cidx + width * row + column
            IN  ForLoop(LAMBDA v3, bidx :
                            Append(v3, [index |-> in_nstride * bidx + adjIndex,
                                        xhat_index |-> in_cstride * bidx
                                                       + (width * row + column)]),
                        v2, 0, n_batchs),
            v1, 0, width),
        <<>>, 0, height)

\* if(savedmeanvar), first loops of one channel: accumulate into dbias_ptr
\* and dscale_ptr as the caller left them, then dscale_ptr[cidx] /= NHW
SpatialBwdSavedSums(visit, x_ptr, dy_ptr, dscale_ptr, dbias_ptr, cidx, mean, invVar, NHW) ==
    LET acc == ForLoop(LAMBDA a, k :
                   LET index == visit[k].index
                       elemStd == RSub(x_ptr[index], mean)
                       dyelem == dy_ptr[index]
                   IN  [dbias_ptr |-> [a.dbias_ptr EXCEPT ![cidx] = RAdd(@, dyelem)],
                        dscale_ptr |-> [a.dscale_ptr EXCEPT ![cidx] =
                                           RAdd(@, RMul(RMul(elemStd, invVar), dyelem))]],
                   [dbias_ptr |-> dbias_ptr, dscale_ptr |-> dscale_ptr],
                   1, Len(visit) + 1)
    IN  [acc EXCEPT !.dscale_ptr[cidx] = RDiv(@, NHW)]

\* SpatialBwdSavedDx taking x - mean for xhat
SpatialBwdSavedDx_NoInvVar(visit, x_ptr, dy_ptr, dx_ptr, scale_ptr, dscale_ptr, dbias_ptr, cidx, mean, invVar, NHW) ==
    ForLoop(LAMBDA dx, k :
                LET index == visit[k].index
                    elemStd == RSub(x_ptr[index], mean)
                    tmp1 == RSub(RMul(NHW, dy_ptr[index]), dbias_ptr[cidx])
                    tmp2 == RMul(RNeg(elemStd), dscale_ptr[cidx])
                    tmp3 == RDiv(RMul(scale_ptr[cidx], invVar), NHW)
                IN  [dx EXCEPT ![index] = RMul(tmp3, RAdd(tmp2, tmp1))],
            dx_ptr, 1, Len(visit) + 1)

\* if(savedmeanvar), second loops: tmp1 = NHW*dy - dbias;
\* tmp2 = -elemStd*invVar*dscale; tmp3 = (scale*invVar)/NHW; dx = tmp3*(tmp2+tmp1)
SpatialBwdSavedDx(visit, x_ptr, dy_ptr, dx_ptr, scale_ptr, dscale_ptr, dbias_ptr, cidx, mean, invVar, NHW) ==
    ForLoop(LAMBDA dx, k :
                LET index == visit[k].index
                    elemStd == RSub(x_ptr[index], mean)
                    tmp1 == RSub(RMul(NHW, dy_ptr[index]), dbias_ptr[cidx])
                    tmp2 == RMul(RMul(RNeg(elemStd), invVar), dscale_ptr[cidx])
                    tmp3 == RDiv(RMul(scale_ptr[cidx], invVar), NHW)
                IN  [dx EXCEPT ![index] = RMul(tmp3, RAdd(tmp2, tmp1))],
            dx_ptr, 1, Len(visit) + 1)

\* else branch: mean /= NHW and invVar = 1./sqrt(variance + epsilon) from x
SpatialBwdMean(visit, x_ptr, NHW) ==
    RDiv(ForLoop(LAMBDA mean, k : RAdd(mean, x_ptr[visit[k].index]),
                 Dbl(0, 1), 1, Len(visit) + 1),
         NHW)

SpatialBwdInvVar(visit, x_ptr, mean, epsilon, NHW) ==
    LET variance ==
            RDiv(ForLoop(LAMBDA acc, k :
                             LET elemStd == RSub(x_ptr[visit[k].index], mean)
                             IN  RAdd(acc, RMul(elemStd, elemStd)),
                         Dbl(0, 1), 1, Len(visit) + 1),
                 NHW)
    IN  Local(variance, LAMBDA v : RDiv(Dbl(1, 1), sqrt(RAdd(v, epsilon))))

\* else branch: dscale_ptr[cidx] = 0.; dbias_ptr[cidx] = 0.; the loops that
\* cache xhat and accumulate; dscale_ptr[cidx] /= NHW
SpatialBwdSums(visit, x_ptr, dy_ptr, dscale_ptr, dbias_ptr, xhat, cidx, mean, invVar, NHW) ==
    LET acc == ForLoop(LAMBDA a, k :
                   LET index == visit[k].index
                       xhat_index == visit[k].xhat_index
                       elemStd == RSub(x_ptr[index], mean)
                       xh == RMul(elemStd, invVar)
                       dyelem == dy_ptr[index]
                   IN  [xhat |-> [a.xhat EXCEPT ![xhat_index] = xh],
                        dbias_ptr |-> [a.dbias_ptr EXCEPT ![cidx] = RAdd(@, dyelem)],
                        dscale_ptr |-> [a.dscale_ptr EXCEPT ![cidx] =
                                           RAdd(@, RMul(xh, dyelem))]],
                   [xhat |-> xhat,
                    dbias_ptr |-> [dbias_ptr EXCEPT ![cidx] = Dbl(0, 1)],
                    dscale_ptr |-> [dscale_ptr EXCEPT ![cidx] = Dbl(0, 1)]],
                   1, Len(visit) + 1)
    IN  [acc EXCEPT !.dscale_ptr[cidx] = RDiv(@, NHW)]

\* else branch, last loops: tmp1 = NHW*dy - dbias; tmp2 = -xhat*dscale;
\* tmp3 = (scale*invVar)/NHW; dx = tmp3*(tmp2+tmp1)
SpatialBwdDx(visit, dy_ptr, dx_ptr, scale_ptr, dscale_ptr, dbias_ptr, xhat, cidx, invVar, NHW) ==
    ForLoop(LAMBDA dx, k :
                LET index == visit[k].index
                    xhat_index == visit[k].xhat_index
                    tmp1 == RSub(RMul(NHW, dy_ptr[index]), dbias_ptr[cidx])
                    tmp2 == RMul(RNeg(xhat[xhat_index]), dscale_ptr[cidx])
                    tmp3 == RDiv(RMul(scale_ptr[cidx], invVar), NHW)
                IN  [dx EXCEPT ![index] = RMul(tmp3, RAdd(tmp2, tmp1))],
            dx_ptr, 1, Len(visit) + 1)

miopenBNBwdSpatialRunHost(n_batchs, channels, height, width, x_ptr, dy_ptr, dx_ptr, scale_ptr, dscale_ptr, dbias_ptr, epsilon, savedmeanvar, savedMean, savedInvVariance) ==
    LET in_nstride == channels * height * width
        in_cstride == height * width
        NHW == Dbl(n_batchs * in_cstride, 1)
        SavedChannel(st, cidx) ==
            LET visit == SpatialBwdVisit(n_batchs, height, width, in_nstride, in_cstride,
                                         cidx)
                mean == savedMean[cidx]
                invVar == savedInvVariance[cidx]
            IN  Local(SpatialBwdSavedSums(visit, x_ptr, dy_ptr, st.dscale_ptr,
                                          st.dbias_ptr, cidx, mean, invVar, NHW),
                      LAMBDA sums :
                    [dx_ptr |-> SpatialBwdSavedDx(visit, x_ptr, dy_ptr, st.dx_ptr,
                                                  scale_ptr, sums.dscale_ptr,
                                                  sums.dbias_ptr, cidx, mean, invVar, NHW),
                     dscale_ptr |-> sums.dscale_ptr,
                     dbias_ptr |-> sums.dbias_ptr,
                     xhat |-> st.xhat])
        Channel(st, cidx) ==
            LET visit == SpatialBwdVisit(n_batchs, height, width, in_nstride, in_cstride,
                                         cidx)
            IN  Local(SpatialBwdMean(visit, x_ptr, NHW),
                      LAMBDA mean :
                Local(SpatialBwdInvVar(visit, x_ptr, mean, epsilon, NHW),
                      LAMBDA invVar :
                Local(SpatialBwdSums(visit, x_ptr, dy_ptr, st.dscale_ptr, st.dbias_ptr,
                                     st.xhat, cidx, mean, invVar, NHW),
                      LAMBDA sums :
                    [dx_ptr |-> SpatialBwdDx(visit, dy_ptr, st.dx_ptr, scale_ptr,
                                             sums.dscale_ptr, sums.dbias_ptr, sums.xhat,
                                             cidx, invVar, NHW),
                     dscale_ptr |-> sums.dscale_ptr,
                     dbias_ptr |-> sums.dbias_ptr,
                     xhat |-> sums.xhat])))
    IN  ForLoop(LAMBDA st, cidx : IF savedmeanvar THEN SavedChannel(st, cidx)
                                  ELSE Channel(st, cidx),
                [dx_ptr |-> dx_ptr, dscale_ptr |-> dscale_ptr, dbias_ptr |-> dbias_ptr,
                 xhat |-> [i \in 0..(n_batchs * in_cstride - 1) |-> Dbl(0, 1)]],
                0, channels)

(***************************************************************************)
(* The spatial functions as compiled with MIO_HEIRARCH_SEL == 1: the sums  *)
(* of a channel are accumulated in MIO_BN_DIST lanes, one per position of  *)
(* a block of the image, and the lanes are added up afterwards.            *)
(***************************************************************************)
MIO_BN_DIST == 32

\* The loop nest  for (im = 0; im < in_cstride; im += MIO_BN_DIST)
\* for (i = 0; i < MIO_BN_DIST; i++) for bidx: in loop order, the lane i,
\* imgIndex = im + i and index = in_nstride*bidx + in_cstride*cidx + imgIndex.
BlockedVisit(n_batchs, in_nstride, in_cstride, cidx) ==
    ForLoop(LAMBDA v1, block :
        ForLoop(LAMBDA v2, i :
            LET imgIndex == MIO_BN_DIST * block + i
                adjIndex == in_cstride * cidx + imgIndex
            IN  ForLoop(LAMBDA v3, bidx :
                            Append(v3, [i |-> i, imgIndex |-> imgIndex,
                                        index |-> in_nstride * bidx + adjIndex]),
                        v2, 0, n_batchs),
            v1, 0, MIO_BN_DIST),
        <<>>, 0, (in_cstride + MIO_BN_DIST - 1) \div MIO_BN_DIST)

\* the iterations that pass  if(imgIndex < in_cstride)
InsideImage(visit, in_cstride) == SelectSeq(visit, LAMBDA e : e.imgIndex < in_cstride)

\* the iterations that pass  if(index < in_nstride*n_batchs)
InsideTensor(visit, numel) == SelectSeq(visit, LAMBDA e : e.index < numel)

\* buffer[index]; an element beyond the end of the buffer holds whatever is
\* in memory there, junk
ReadAt(buffer, index, junk) == IF index \in DOMAIN buffer THEN buffer[index] ELSE junk

\* accum_arr[i] += Term(index) over the iterations, with the lanes zeroed
\* before, then  for(i = 0; i < MIO_BN_DIST; i++) accum += accum_arr[i]
LaneSum(visit, Term(_)) ==
    Local(ForLoop(LAMBDA arr, k : [arr EXCEPT ![visit[k].i] = RAdd(@, Term(visit[k].index))],
                  [i \in 0..(MIO_BN_DIST - 1) |-> Dbl(0, 1)], 1, Len(visit) + 1),
          LAMBDA accum_arr :
              ForLoop(LAMBDA accum, i : RAdd(accum, accum_arr[i]), Dbl(0, 1), 0, MIO_BN_DIST))

\* (x - mean)^2
SquaredDeviation(x, mean) == Local(RSub(x, mean), LAMBDA elemStd : RMul(elemStd, elemStd))

\* miopenBNFwdTrainSpatialRunHost, MIO_HEIRARCH_SEL == 1: the variance loop
\* keeps elemStd to itself, and #4 reads out_ptr as the caller left it
miopenBNFwdTrainSpatialRunHostBlocked(n_batchs, channels, height, width, in_ptr, out_ptr, scale_ptr, bias_ptr, epsilon, savemeanvar, runningmeanvar, saveMean, saveInvVariance, runningMean, runningVariance, expAvgFactor) ==
    LET in_nstride == channels * height * width
        in_cstride == height * width
        NHW == Dbl(in_cstride * n_batchs, 1)
        Channel(st, cidx) ==
            LET visit == SpatialTrainVisit(n_batchs, height, width, in_nstride, in_cstride,
                                           cidx)
                lanes == InsideImage(BlockedVisit(n_batchs, in_nstride, in_cstride, cidx),
                                     in_cstride)
            IN  Local(RDiv(LaneSum(lanes, LAMBDA index : in_ptr[index]), NHW),
                      LAMBDA mean_accum :
                Local(RDiv(LaneSum(lanes, LAMBDA index :
                                              SquaredDeviation(in_ptr[index], mean_accum)),
                           NHW),
                      LAMBDA variance_accum :
                Local(SpatialTrainInvVar(variance_accum, epsilon),
                      LAMBDA invertVar :
                    [out_ptr |-> SpatialTrainNormalize(visit, st.out_ptr, scale_ptr,
                                                       bias_ptr, cidx, invertVar),
                     saveMean |-> SpatialTrainSave(savemeanvar, st.saveMean, cidx,
                                                   mean_accum),
                     saveInvVariance |-> SpatialTrainSave(savemeanvar, st.saveInvVariance,
                                                          cidx, invertVar),
                     runningMean |-> SpatialTrainRunningMean(runningmeanvar, st.runningMean,
                                                             cidx, mean_accum, expAvgFactor),
                     runningVariance |->
                         SpatialTrainRunningVariance(runningmeanvar, st.runningVariance,
                                                     cidx, variance_accum, expAvgFactor,
                                                     n_batchs, in_cstride)])))
    IN  ForLoop(Channel,
                [out_ptr |-> out_ptr, saveMean |-> saveMean,
                 saveInvVariance |-> saveInvVariance, runningMean |-> runningMean,
                 runningVariance |-> runningVariance],
                0, channels)

\* miopenBNFwdInferSpatialRunHost, MIO_HEIRARCH_SEL == 1, else branch: the
\* blocked loops have no  if(imgIndex < in_cstride)
SpatialInferBatchBlocked(visit, lanes, in_ptr, out_ptr, scale_ptr, bias_ptr, epsilon, cidx, n_batchs, in_cstride, junk) ==
    Local(RDiv(LaneSum(lanes, LAMBDA index : ReadAt(in_ptr, index, junk)),
               Dbl(in_cstride * n_batchs, 1)),
          LAMBDA mean_accum :
    Local(ForLoop(LAMBDA out, k :
                      IF lanes[k].index \in DOMAIN out
                      THEN [out EXCEPT ![lanes[k].index] =
                               RSub(ReadAt(in_ptr, lanes[k].index, junk), mean_accum)]
                      ELSE out,
                  out_ptr, 1, Len(lanes) + 1),
          LAMBDA scratch :
    Local(RDiv(LaneSum(lanes, LAMBDA index :
                                  SquaredDeviation(ReadAt(in_ptr, index, junk), mean_accum)),
               Dbl(in_cstride * n_batchs, 1)),
          LAMBDA variance_accum :
    Local(RDiv(Dbl(1, 1), sqrt(RAdd(variance_accum, epsilon))),
          LAMBDA invertVar :
        ForLoop(LAMBDA out, k :
                    LET index == visit[k]
                        elemStd == out[index]
                        inhat == RMul(elemStd, invertVar)
                    IN  [out EXCEPT ![index] =
                            RAdd(RMul(scale_ptr[cidx], inhat), bias_ptr[cidx])],
                scratch, 1, Len(visit) + 1)))))

miopenBNFwdInferSpatialRunHostBlocked(n_batchs, channels, height, width, in_ptr, out_ptr, scale_ptr, bias_ptr, epsilon, estmeanvar, estimatedMean, estimatedVariance, junk) ==
    LET in_nstride == channels * height * width
        in_cstride == height * width
        Channel(out, cidx) ==
            LET visit == SpatialInferVisit(n_batchs, height, width, in_nstride, in_cstride,
                                           cidx)
            IN  IF estmeanvar
                THEN SpatialInferEstimated(visit, in_ptr, out, scale_ptr, bias_ptr, epsilon,
                                           estimatedMean, estimatedVariance, cidx)
                ELSE SpatialInferBatchBlocked(
                         visit, BlockedVisit(n_batchs, in_nstride, in_cstride, cidx), in_ptr,
                         out, scale_ptr, bias_ptr, epsilon, cidx, n_batchs, in_cstride, junk)
    IN  ForLoop(Channel, out_ptr, 0, channels)

\* miopenBNBwdSpatialRunHost, MIO_HEIRARCH_SEL == 1, else branch, last
\* loops: guarded by  if(index < in_nstride*n_batchs)
SpatialBwdDxBlocked(lanes, x_ptr, dy_ptr, dx_ptr, scale_ptr, dscale_ptr, dbias_ptr, cidx, mean, invVar, NHW) ==
    ForLoop(LAMBDA dx, k :
                LET index == lanes[k].index
                    elemStd == RSub(x_ptr[index], mean)
                    tmp1 == RSub(RMul(NHW, dy_ptr[index]), dbias_ptr[cidx])
                    tmp2 == RMul(RMul(RNeg(elemStd), invVar), dscale_ptr[cidx])
                    tmp3 == RDiv(RMul(scale_ptr[cidx], invVar), NHW)
                IN  [dx EXCEPT ![index] = RMul(tmp3, RAdd(tmp2, tmp1))],
            dx_ptr, 1, Len(lanes) + 1)

miopenBNBwdSpatialRunHostBlocked(n_batchs, channels, height, width, x_ptr, dy_ptr, dx_ptr, scale_ptr, dscale_ptr, dbias_ptr, epsilon, savedmeanvar, savedMean, savedInvVariance) ==
    LET in_nstride == channels * height * width
        in_cstride == height * width
        NHW == Dbl(n_batchs * in_cstride, 1)
        Channel(st, cidx) ==
            LET all == BlockedVisit(n_batchs, in_nstride, in_cstride, cidx)
                lanes == InsideImage(all, in_cstride)
            IN  Local(RDiv(LaneSum(lanes, LAMBDA index : x_ptr[index]), NHW),
                      LAMBDA mean :
                Local(RDiv(LaneSum(lanes, LAMBDA index :
                                              SquaredDeviation(x_ptr[index], mean)),
                           NHW),
                      LAMBDA variance :
                Local(RDiv(Dbl(1, 1), sqrt(RAdd(variance, epsilon))),
                      LAMBDA invVar :
                Local(RAdd(Dbl(0, 1), LaneSum(lanes, LAMBDA index : dy_ptr[index])),
                      LAMBDA dbias :
                Local(RDiv(RAdd(Dbl(0, 1),
                                LaneSum(lanes, LAMBDA index :
                                    RMul(RMul(RSub(x_ptr[index], mean), invVar),
                                         dy_ptr[index]))),
                           NHW),
                      LAMBDA dscale :
                Local([dscale_ptr |-> [st.dscale_ptr EXCEPT ![cidx] = dscale],
                       dbias_ptr |-> [st.dbias_ptr EXCEPT ![cidx] = dbias]],
                      LAMBDA sums :
                    [dx_ptr |-> SpatialBwdDxBlocked(
                                    InsideTensor(all, in_nstride * n_batchs), x_ptr, dy_ptr,
                                    st.dx_ptr, scale_ptr, sums.dscale_ptr, sums.dbias_ptr,
                                    cidx, mean, invVar, NHW),
                     dscale_ptr |-> sums.dscale_ptr,
                     dbias_ptr |-> sums.dbias_ptr]))))))
    IN  IF savedmeanvar
        THEN miopenBNBwdSpatialRunHost(n_batchs, channels, height, width, x_ptr, dy_ptr,
                                       dx_ptr, scale_ptr, dscale_ptr, dbias_ptr, epsilon,
                                       savedmeanvar, savedMean, savedInvVariance)
        ELSE ForLoop(Channel,
                     [dx_ptr |-> dx_ptr, dscale_ptr |-> dscale_ptr, dbias_ptr |-> dbias_ptr],
                     0, channels)

(***************************************************************************)
(* The caller: a layer of fixed mode and shape, its input tensors, scalar  *)
(* configuration and the buffers it hands to the host calls.               *)
(***************************************************************************)
VARIABLES
    mode,             \* "PerActivation" or "Spatial", fixed for the layer
    n_batchs, channels, height, width,
    epsilon, expAvgFactor,
    in_ptr,           \* x, N*C*H*W elements
    dy_ptr,           \* upstream gradient, N*C*H*W elements
    scale_ptr, bias_ptr,
    estimatedMean, estimatedVariance,
    out_ptr,          \* y
    saveMean, saveInvVariance,
    runningMean, runningVariance,
    dx_ptr, dscale_ptr, dbias_ptr,
    last,             \* the host call made last, with its flags
    calls             \* number of host calls made

shapeVars == <<mode, n_batchs, channels, height, width, epsilon, expAvgFactor>>
inputVars == <<in_ptr, dy_ptr, scale_ptr, bias_ptr, estimatedMean, estimatedVariance>>
fwdVars == <<out_ptr, saveMean, saveInvVariance, runningMean, runningVariance>>
bwdVars == <<dx_ptr, dscale_ptr, dbias_ptr>>
layerVars == <<shapeVars, inputVars, fwdVars, bwdVars, last, calls>>

(***************************************************************************)
(* The Where backward kernel launch: the device buffers it is given and    *)
(* the position of every thread of the grid.                               *)
(***************************************************************************)
VARIABLES
    condition,        \* char per element, 0 or 1
    output_grad,      \* size elements
    input_grad,       \* input_size elements, or nullptr
    other_grad,       \* other_size elements, or nullptr
    where_pc          \* per thread gid: "entry", "other_grad" or "done"

whereVars == <<condition, output_grad, input_grad, other_grad, where_pc>>

(***************************************************************************)
(* A launch of a HIP inference kernel by the port test: the device output  *)
(* buffer and the loop counters of every thread of the grid.               *)
(***************************************************************************)
VARIABLES
    out_dev,          \* the kernel's out, N*C*H*W elements
    hip_thread,       \* per thread <<xidx, yidx>>: its loop counters idx and n
    hip_stores,       \* per output index: the threads that stored to it, in order
    hip_fault         \* a thread has accessed an element outside a buffer

hipVars == <<out_dev, hip_thread, hip_stores, hip_fault>>

(***************************************************************************)
(* A host call in progress, one iteration of a mini-batch loop at a time:  *)
(* the groups of the call, each with its place in the loops of the group   *)
(* body and the scalars of the body, and the xhat vector of the call.      *)
(***************************************************************************)
VARIABLES
    host_call,        \* the function called, its flags, and who runs the groups
    group_pc,         \* per group: the loop it is in and the iterations made
    group_local,      \* per group: mean, variance, invVar, dxhat, dxhathat
    xhat_vec,         \* std::vector<double> xhat(n_batchs*in_cstride)
    xhat_writer,      \* per element of xhat: the group that stored it, -1 none
    accumulated       \* per group: the elements its first loop has added

stepVars == <<host_call, group_pc, group_local, xhat_vec, xhat_writer, accumulated>>

\* everything outside the batch-normalisation layer
launchVars == <<whereVars, hipVars, stepVars>>

vars == <<layerVars, launchVars>>

\* no kernel has been launched
NoWhereLaunch ==
    /\ condition = <<>>
    /\ output_grad = <<>>
    /\ input_grad = <<>>
    /\ other_grad = <<>>
    /\ where_pc = <<>>

NoHipLaunch ==
    /\ out_dev = <<>>
    /\ hip_thread = <<>>
    /\ hip_stores = <<>>
    /\ hip_fault = FALSE

\* no host call is being followed step by step
NoHostSteps ==
    /\ host_call = <<>>
    /\ group_pc = <<>>
    /\ group_local = <<>>
    /\ xhat_vec = <<>>
    /\ xhat_writer = <<>>
    /\ accumulated = <<>>

NothingLaunched == NoWhereLaunch /\ NoHipLaunch /\ NoHostSteps

\* number of tensor elements, and of groups (entries of a per-group array)
NumElems == n_batchs * channels * height * width
NumGroups == IF mode = "PerActivation" THEN channels * height * width ELSE channels

\* the input patterns: small integers; a group may hold equal or distinct
\* values, scale may be positive, zero or negative
XPattern(seed, i) == Dbl((((i + 1) * (i + seed + 1)) % 5) - 1, 1)
DyPattern(seed, i) == Dbl(((((i + 1) * (i + 2)) \div 2 + seed * (i + 1)) % 4) - 1, 1)
ScalePattern(seed, g) == Dbl(2 * g - seed + 2, 1)
BiasPattern(seed, g) == Dbl(1 - seed - g, 1)

\* the scalar configurations of a layer: epsilon > 0, 0 < expAvgFactor < 1
ScalarConfigs ==
    {[epsilon |-> Dbl(1, 4), expAvgFactor |-> Dbl(1, 4)],
     [epsilon |-> Dbl(1, 1), expAvgFactor |-> Dbl(3, 4)]}

\* the running statistics a layer starts from
InitialRunningMean(g) == Dbl(g + 1, 1)
InitialRunningVariance(g) == Dbl(1, 1)

Init ==
    /\ mode \in {"PerActivation", "Spatial"}
    /\ n_batchs \in 1..MaxDim
    /\ channels \in 1..MaxDim
    /\ height \in 1..MaxDim
    /\ width \in 1..MaxDim
    /\ NumElems <= MaxElems
    /\ \E scalars \in ScalarConfigs :
           /\ epsilon = scalars.epsilon
           /\ expAvgFactor = scalars.expAvgFactor
    /\ \E seed \in 0..MaxSeed :
           /\ in_ptr = [i \in 0..(NumElems - 1) |-> XPattern(seed, i)]
           /\ dy_ptr = [i \in 0..(NumElems - 1) |-> DyPattern(seed, i)]
           /\ scale_ptr = [g \in 0..(NumGroups - 1) |-> ScalePattern(seed, g)]
           /\ bias_ptr = [g \in 0..(NumGroups - 1) |-> BiasPattern(seed, g)]
    /\ estimatedMean = [g \in 0..(NumGroups - 1) |-> Dbl(g + 1, 2)]
    /\ estimatedVariance = [g \in 0..(NumGroups - 1) |-> Dbl(g + 3, 4)]
    /\ out_ptr = [i \in 0..(NumElems - 1) |-> Dbl(0, 1)]
    /\ saveMean = [g \in 0..(NumGroups - 1) |-> Dbl(0, 1)]
    /\ saveInvVariance = [g \in 0..(NumGroups - 1) |-> Dbl(0, 1)]
    /\ runningMean = [g \in 0..(NumGroups - 1) |-> InitialRunningMean(g)]
    /\ runningVariance = [g \in 0..(NumGroups - 1) |-> InitialRunningVariance(g)]
    /\ dx_ptr = [i \in 0..(NumElems - 1) |-> Dbl(0, 1)]
    /\ dscale_ptr = [g \in 0..(NumGroups - 1) |-> Dbl(0, 1)]
    /\ dbias_ptr = [g \in 0..(NumGroups - 1) |-> Dbl(0, 1)]
    /\ last = [op |-> "none"]
    /\ calls = 0
    /\ NothingLaunched

\* int ret = 0; ... return(ret);  (return 0; in the backward functions): the
\* result every host call returns, recorded with the call in last
ret == 0

\* ForwardTrain, per-activation mode
FwdTrainPerActivation ==
    /\ mode = "PerActivation"
    /\ calls < MaxCalls
    /\ \E savemeanvar \in BOOLEAN, runningmeanvar \in BOOLEAN :
           \E r \in {miopenBNFwdTrainPerActivationRunHost(
                        n_batchs, channels, height, width, in_ptr, out_ptr, scale_ptr,
                        bias_ptr, epsilon, savemeanvar, runningmeanvar, saveMean,
                        saveInvVariance, runningMean, runningVariance, expAvgFactor)} :
               /\ out_ptr' = r.out_ptr
               /\ saveMean' = r.saveMean
               /\ saveInvVariance' = r.saveInvVariance
               /\ runningMean' = r.runningMean
               /\ runningVariance' = r.runningVariance
               /\ last' = [op |-> "ForwardTrain", ret |-> ret,
                           savemeanvar |-> savemeanvar,
                           runningmeanvar |-> runningmeanvar]
    /\ calls' = calls + 1
    /\ UNCHANGED <<launchVars, shapeVars, inputVars, bwdVars>>

\* ForwardTrain, spatial mode
FwdTrainSpatial ==
    /\ mode = "Spatial"
    /\ calls < MaxCalls
    /\ \E savemeanvar \in BOOLEAN, runningmeanvar \in BOOLEAN :
           \E r \in {miopenBNFwdTrainSpatialRunHost(
                        n_batchs, channels, height, width, in_ptr, out_ptr, scale_ptr,
                        bias_ptr, epsilon, savemeanvar, runningmeanvar, saveMean,
                        saveInvVariance, runningMean, runningVariance, expAvgFactor)} :
               /\ out_ptr' = r.out_ptr
               /\ saveMean' = r.saveMean
               /\ saveInvVariance' = r.saveInvVariance
               /\ runningMean' = r.runningMean
               /\ runningVariance' = r.runningVariance
               /\ last' = [op |-> "ForwardTrain", ret |-> ret,
                           savemeanvar |-> savemeanvar,
                           runningmeanvar |-> runningmeanvar]
    /\ calls' = calls + 1
    /\ UNCHANGED <<launchVars, shapeVars, inputVars, bwdVars>>

\* the statistics a caller supplies to ForwardInfer: its own estimates, or
\* the running statistics of training
Estimates(source) ==
    IF source = "running"
    THEN [mean |-> runningMean, variance |-> runningVariance]
    ELSE [mean |-> estimatedMean, variance |-> estimatedVariance]

\* ForwardInfer, per-activation mode
FwdInferPerActivation ==
    /\ mode = "PerActivation"
    /\ calls < MaxCalls
    /\ \E source \in {"none", "estimated", "running"} :
           /\ out_ptr' = miopenBNFwdInferPerActivationRunHost(
                             n_batchs, channels, height, width, in_ptr, out_ptr, scale_ptr,
                             bias_ptr, epsilon, source # "none", Estimates(source).mean,
                             Estimates(source).variance)
           /\ last' = [op |-> "ForwardInfer", ret |-> ret, source |-> source]
    /\ calls' = calls + 1
    /\ UNCHANGED <<launchVars, shapeVars, inputVars, saveMean, saveInvVariance, runningMean,
                   runningVariance, bwdVars>>

\* ForwardInfer, spatial mode
FwdInferSpatial ==
    /\ mode = "Spatial"
    /\ calls < MaxCalls
    /\ \E source \in {"none", "estimated", "running"} :
           /\ out_ptr' = miopenBNFwdInferSpatialRunHost(
                             n_batchs, channels, height, width, in_ptr, out_ptr, scale_ptr,
                             bias_ptr, epsilon, source # "none", Estimates(source).mean,
                             Estimates(source).variance)
           /\ last' = [op |-> "ForwardInfer", ret |-> ret, source |-> source]
    /\ calls' = calls + 1
    /\ UNCHANGED <<launchVars, shapeVars, inputVars, saveMean, saveInvVariance, runningMean,
                   runningVariance, bwdVars>>

\* Backward, per-activation mode
BwdPerActivation ==
    /\ mode = "PerActivation"
    /\ calls < MaxCalls
    /\ \E savedmeanvar \in BOOLEAN :
           \E r \in {miopenBNBwdPerActivationRunHost(
                        n_batchs, channels, height, width, in_ptr, dy_ptr, dx_ptr,
                        scale_ptr, dscale_ptr, dbias_ptr, epsilon, savedmeanvar, saveMean,
                        saveInvVariance)} :
               /\ dx_ptr' = r.dx_ptr
               /\ dscale_ptr' = r.dscale_ptr
               /\ dbias_ptr' = r.dbias_ptr
               /\ last' = [op |-> "Backward", ret |-> ret,
                           savedmeanvar |-> savedmeanvar]
    /\ calls' = calls + 1
    /\ UNCHANGED <<launchVars, shapeVars, inputVars, fwdVars>>

\* BwdSpatial storing the statistics it recomputed in the saved arrays
BwdSpatial_StoresStatistics ==
    /\ mode = "Spatial"
    /\ calls < MaxCalls
    /\ \E savedmeanvar \in BOOLEAN :
           \E r \in {miopenBNBwdSpatialRunHost(
                        n_batchs, channels, height, width, in_ptr, dy_ptr, dx_ptr,
                        scale_ptr, dscale_ptr, dbias_ptr, epsilon, savedmeanvar, saveMean,
                        saveInvVariance)} :
               /\ dx_ptr' = r.dx_ptr
               /\ dscale_ptr' = r.dscale_ptr
               /\ dbias_ptr' = r.dbias_ptr
               /\ \E s \in {miopenBNFwdTrainSpatialRunHost(
                               n_batchs, channels, height, width, in_ptr, out_ptr,
                               scale_ptr, bias_ptr, epsilon, ~savedmeanvar, FALSE, saveMean,
                               saveInvVariance, runningMean, runningVariance,
                               expAvgFactor)} :
                      /\ saveMean' = s.saveMean
                      /\ saveInvVariance' = s.saveInvVariance
               /\ last' = [op |-> "Backward", ret |-> ret,
                           savedmeanvar |-> savedmeanvar]
    /\ calls' = calls + 1
    /\ UNCHANGED <<launchVars, shapeVars, inputVars, out_ptr, runningMean, runningVariance>>

\* Backward, spatial mode
BwdSpatial ==
    /\ mode = "Spatial"
    /\ calls < MaxCalls
    /\ \E savedmeanvar \in BOOLEAN :
           \E r \in {miopenBNBwdSpatialRunHost(
                        n_batchs, channels, height, width, in_ptr, dy_ptr, dx_ptr,
                        scale_ptr, dscale_ptr, dbias_ptr, epsilon, savedmeanvar, saveMean,
                        saveInvVariance)} :
               /\ dx_ptr' = r.dx_ptr
               /\ dscale_ptr' = r.dscale_ptr
               /\ dbias_ptr' = r.dbias_ptr
               /\ last' = [op |-> "Backward", ret |-> ret,
                           savedmeanvar |-> savedmeanvar]
    /\ calls' = calls + 1
    /\ UNCHANGED <<launchVars, shapeVars, inputVars, fwdVars>>

Next ==
    \/ FwdTrainPerActivation
    \/ FwdTrainSpatial
    \/ FwdInferPerActivation
    \/ FwdInferSpatial
    \/ BwdPerActivation
    \/ BwdSpatial

Spec == Init /\ [][Next]_vars

\* every buffer holds finite values of the representation
AllFinite ==
    /\ \A i \in 0..(NumElems - 1) : IsFinite(out_ptr[i]) /\ IsFinite(dx_ptr[i])
    /\ \A g \in 0..(NumGroups - 1) :
           /\ IsFinite(saveMean[g]) /\ IsFinite(saveInvVariance[g])
           /\ IsFinite(runningMean[g]) /\ IsFinite(runningVariance[g])
           /\ IsFinite(dscale_ptr[g]) /\ IsFinite(dbias_ptr[g])

(***************************************************************************)
(* The contract of the engine, stated over the tensor view and the         *)
(* reduction groups, independently of the loops above.                     *)
(***************************************************************************)
Elems == 0..(NumElems - 1)
Groups == 0..(NumGroups - 1)

\* the group of element (n,c,h,w) = n*C*H*W + c*H*W + h*W + w: its (c,h,w)
\* coordinate in per-activation mode, its channel c in spatial mode
GroupOf(i) ==
    IF mode = "PerActivation" THEN i % (channels * height * width)
    ELSE (i \div (height * width)) % channels

Members(g) == {i \in Elems : GroupOf(i) = g}

\* group size M: N per-activation, N*H*W spatial
GroupSize == IF mode = "PerActivation" THEN n_batchs ELSE n_batchs * height * width

\* the sum of f[e] over the elements e of S
RECURSIVE SumOver(_,_)
SumOver(f, S) ==
    IF S = {} THEN Dbl(0, 1)
    ELSE CHOOSE r \in {CHOOSE s \in {RAdd(g[e], rest) : rest \in {SumOver(g, T \ {e})}} : TRUE :
                       g \in {f}, T \in {S}, e \in {CHOOSE e \in S : TRUE}} : TRUE

\* batch statistics of group g
GroupMean(g) == RDiv(SumOver(in_ptr, Members(g)), Dbl(GroupSize, 1))

GroupVariance(g) ==
    Local(GroupMean(g),
          LAMBDA mean :
        RDiv(SumOver([i \in Members(g) |-> RMul(RSub(in_ptr[i], mean),
                                                RSub(in_ptr[i], mean))],
                     Members(g)),
             Dbl(GroupSize, 1)))

GroupInvVariance(g) ==
    Local(GroupVariance(g),
          LAMBDA variance : RDiv(Dbl(1, 1), sqrt(RAdd(variance, epsilon))))

IsForwardTrain(l) == l.op = "ForwardTrain"
IsBackward(l) == l.op = "Backward"

C2_SavedStatistics ==
    (IsForwardTrain(last) /\ last.savemeanvar) =>
        \A g \in Groups :
            /\ saveMean[g] = GroupMean(g)
            /\ saveInvVariance[g] = GroupInvVariance(g)

\* statistics saved for several groups of several members, one of them with
\* a non-zero variance and a non-zero mean
C2_Witness ==
    /\ IsForwardTrain(last) /\ last.savemeanvar
    /\ NumGroups > 1 /\ GroupSize > 1
    /\ \E g \in Groups :
           /\ GroupVariance(g) # Dbl(0, 1)
           /\ saveMean[g] # Dbl(0, 1)
           /\ saveInvVariance[g] = GroupInvVariance(g)

\* the statistics a Backward call works with: the saved ones when it was
\* given them, the batch statistics of x otherwise
BwdMean(g) == IF last.savedmeanvar THEN saveMean[g] ELSE GroupMean(g)
BwdInvVar(g) == IF last.savedmeanvar THEN saveInvVariance[g] ELSE GroupInvVariance(g)

\* xhat_i = (x_i - mean)*invVar
Xhat(i) == RMul(RSub(in_ptr[i], BwdMean(GroupOf(i))), BwdInvVar(GroupOf(i)))

\* the group sums of the contract: sum dy_j and sum xhat_j*dy_j
SumDy(g) == SumOver(dy_ptr, Members(g))
SumXhatDy(g) ==
    Local(BwdMean(g),
          LAMBDA mean :
    Local(BwdInvVar(g),
          LAMBDA invVar :
        SumOver([j \in Members(g) |-> RMul(RMul(RSub(in_ptr[j], mean), invVar),
                                           dy_ptr[j])],
                Members(g))))

\* dx_i = (invVar/M)*(M*scale*dy_i - scale*dbias[g] - xhat_i*scale*dscale[g])
ContractDx(i) ==
    LET g == GroupOf(i)
        M == Dbl(GroupSize, 1)
    IN  Local(BwdInvVar(g),
              LAMBDA invVar :
        Local(Xhat(i),
              LAMBDA xhat :
        Local(SumDy(g),
              LAMBDA dbias :
        Local(SumXhatDy(g),
              LAMBDA dscale :
            RMul(RDiv(invVar, M),
                 RSub(RSub(RMul(RMul(M, scale_ptr[g]), dy_ptr[i]),
                           RMul(scale_ptr[g], dbias)),
                      RMul(RMul(xhat, scale_ptr[g]), dscale)))))))

\* C3: in per-activation mode Backward produces, for every element i of
\* every group g, dx_i = (invVar/M)*(M*scale*dy_i - scale*dbias[g]
\* - xhat_i*scale*dscale[g]) with dbias[g] = sum dy_j and
\* dscale[g] = sum xhat_j*dy_j, on the saved and on the recomputed path.
C3_PerActivationInputGradient ==
    (IsBackward(last) /\ mode = "PerActivation") =>
        \A i \in Elems : dx_ptr[i] = ContractDx(i)

\* C4: in spatial mode Backward produces, for every element i of every
\* channel g, dx_i = (invVar/M)*(M*scale*dy_i - scale*dbias[g]
\* - xhat_i*scale*dscale[g]) with dbias[g] = sum dy_j and
\* dscale[g] = sum xhat_j*dy_j, on the saved and on the recomputed path.
C4_SpatialInputGradient ==
    (IsBackward(last) /\ mode = "Spatial") =>
        \A i \in Elems : dx_ptr[i] = ContractDx(i)

\* C5: after Backward, in either mode and on either path, dbias[g] is the
\* sum of dy_i over the members of group g, for every group g.
C5_BiasGradient ==
    IsBackward(last) => \A g \in Groups : dbias_ptr[g] = SumDy(g)

\* C6: after Backward, in either mode and on either path, dscale[g] is the
\* sum over the members of group g of xhat_i*dy_i, the sum itself.
C6_ScaleGradient ==
    IsBackward(last) => \A g \in Groups : dscale_ptr[g] = SumXhatDy(g)

\* a step that is a ForwardTrain call with running statistics tracked
TrackedTrainStep ==
    /\ calls' = calls + 1
    /\ last'.op = "ForwardTrain"
    /\ last'.runningmeanvar

\* old*(1 - momentum) + mean*momentum
RunningMeanUpdate(old, mean) ==
    RAdd(RMul(old, RSub(Dbl(1, 1), expAvgFactor)), RMul(mean, expAvgFactor))

\* C7: every ForwardTrain call with tracking on replaces runningMean[g], for
\* every group g, by old runningMean[g]*(1 - momentum) + mean_g*momentum for
\* the batch mean of that call: one update per group and call, so k calls
\* compose it k times.
C7_RunningMeanUpdate ==
    [][TrackedTrainStep =>
           \A g \in Groups :
               runningMean'[g] = RunningMeanUpdate(runningMean[g], GroupMean(g))]_vars

\* two tracked calls in a row: some entry holds the update applied twice to
\* its initial value, and that differs from the update applied once
C7_Witness ==
    /\ IsForwardTrain(last) /\ last.runningmeanvar
    /\ calls = 2
    /\ GroupSize > 1
    /\ \E g \in Groups :
           LET once == RunningMeanUpdate(InitialRunningMean(g), GroupMean(g))
           IN  /\ runningMean[g] = RunningMeanUpdate(once, GroupMean(g))
               /\ runningMean[g] # once

\* momentum*old + (1 - momentum)*variance*M/(M-1)
RunningVarianceUpdate(old, variance) ==
    LET M == Dbl(GroupSize, 1)
        adjustedVariance == RDiv(RMul(variance, M), RSub(M, Dbl(1, 1)))
    IN  RAdd(RMul(expAvgFactor, old),
             RMul(RSub(Dbl(1, 1), expAvgFactor), adjustedVariance))

\* C8: every ForwardTrain call with tracking on, over groups of size M > 1,
\* replaces runningVariance[g], for every group g, by
\* momentum*old runningVariance[g] + (1 - momentum)*variance_g*M/(M-1).
C8_RunningVarianceUpdate ==
    [][(TrackedTrainStep /\ GroupSize > 1) =>
           \A g \in Groups :
               runningVariance'[g] =
                   RunningVarianceUpdate(runningVariance[g], GroupVariance(g))]_vars

\* a tracked spatial call over groups of several members: an entry holds
\* the update of its initial value with a non-zero batch variance
C8_Witness ==
    /\ IsForwardTrain(last) /\ last.runningmeanvar
    /\ calls = 1
    /\ mode = "Spatial" /\ GroupSize > 2
    /\ \E g \in Groups :
           /\ GroupVariance(g) # Dbl(0, 1)
           /\ runningVariance[g] =
                  RunningVarianceUpdate(InitialRunningVariance(g), GroupVariance(g))
           /\ runningVariance[g] # InitialRunningVariance(g)

\* C9: over groups of one member ForwardTrain works with variance 0:
\* invVariance = 1/sqrt(epsilon), a finite value, the output of the single
\* member is bias[g], and with tracking on the new runningVariance[g] is
\* momentum*old runningVariance[g].
C9_SingleSampleGroup ==
    [][(calls' = calls + 1 /\ last'.op = "ForwardTrain" /\ GroupSize = 1) =>
           \A g \in Groups :
               /\ \A i \in Members(g) : out_ptr'[i] = bias_ptr[g]
               /\ last'.savemeanvar =>
                      /\ saveInvVariance'[g] = RDiv(Dbl(1, 1), sqrt(epsilon))
                      /\ IsFinite(saveInvVariance'[g])
               /\ last'.runningmeanvar =>
                      runningVariance'[g] = RMul(expAvgFactor, runningVariance[g])]_vars

\* a saving and tracking call over several groups of one member each
C9_Witness ==
    /\ IsForwardTrain(last) /\ last.savemeanvar /\ last.runningmeanvar
    /\ calls = 1
    /\ GroupSize = 1 /\ NumGroups > 1
    /\ \A g \in Groups :
           /\ saveInvVariance[g] = RDiv(Dbl(1, 1), sqrt(epsilon))
           /\ runningVariance[g] = RMul(expAvgFactor, InitialRunningVariance(g))
           /\ \A i \in Members(g) : out_ptr[i] = bias_ptr[g] /\ in_ptr[i] = saveMean[g]

\* C10: runningMean and runningVariance change only in a ForwardTrain call
\* made with tracking on, saveMean and saveInvVariance only in a
\* ForwardTrain call made with saving on; ForwardInfer, with or without
\* supplied estimates, changes none of the four.
C10_FlagGatedSideEffects ==
    [][/\ (runningMean' # runningMean \/ runningVariance' # runningVariance) =>
              (last'.op = "ForwardTrain" /\ last'.runningmeanvar)
       /\ (saveMean' # saveMean \/ saveInvVariance' # saveInvVariance) =>
              (last'.op = "ForwardTrain" /\ last'.savemeanvar)]_vars

\* a ForwardTrain that saved without tracking, followed by a ForwardInfer:
\* the saved statistics hold batch values, the running ones their initial
\* values
C10_Witness ==
    /\ calls = 2
    /\ last.op = "ForwardInfer"
    /\ GroupSize > 1
    /\ \A g \in Groups :
           /\ saveMean[g] = GroupMean(g)
           /\ saveInvVariance[g] = GroupInvVariance(g)
           /\ runningMean[g] = InitialRunningMean(g)
           /\ runningVariance[g] = InitialRunningVariance(g)
    /\ \E g \in Groups : saveMean[g] # Dbl(0, 1)

\* C11: ForwardInfer with supplied estimates writes, for every element,
\* y = scale[g]*(x - estimatedMean[g])/sqrt(estimatedVariance[g] + epsilon)
\* + bias[g]: a function of the element's own input and of its group's
\* supplied statistics and parameters only, also when the supplied
\* statistics are the running statistics of training.
C11_InferenceWithEstimates ==
    (last.op = "ForwardInfer" /\ last.source # "none") =>
        \A i \in Elems :
            LET g == GroupOf(i)
                est == Estimates(last.source)
            IN  out_ptr[i] =
                    RAdd(RDiv(RMul(scale_ptr[g], RSub(in_ptr[i], est.mean[g])),
                              sqrt(RAdd(est.variance[g], epsilon))),
                         bias_ptr[g])

\* an inference fed the running statistics that a tracked training call
\* left, over groups of several members whose batch mean is not the
\* supplied mean
C11_Witness ==
    /\ last.op = "ForwardInfer" /\ last.source = "running"
    /\ calls = 2
    /\ GroupSize > 1
    /\ \E g \in Groups :
           /\ runningMean[g] = RunningMeanUpdate(InitialRunningMean(g), GroupMean(g))
           /\ runningMean[g] # GroupMean(g)
           /\ \E i \in Members(g) : out_ptr[i] # bias_ptr[g]

\* what ForwardTrain writes to a fresh output buffer for the layer's x,
\* scale, bias and epsilon, with saving and tracking both off
ForwardTrainOutput ==
    LET fresh == [i \in Elems |-> Dbl(0, 1)]
    IN  IF mode = "PerActivation"
        THEN miopenBNFwdTrainPerActivationRunHost(
                 n_batchs, channels, height, width, in_ptr, fresh, scale_ptr, bias_ptr,
                 epsilon, FALSE, FALSE, saveMean, saveInvVariance, runningMean,
                 runningVariance, expAvgFactor).out_ptr
        ELSE miopenBNFwdTrainSpatialRunHost(
                 n_batchs, channels, height, width, in_ptr, fresh, scale_ptr, bias_ptr,
                 epsilon, FALSE, FALSE, saveMean, saveInvVariance, runningMean,
                 runningVariance, expAvgFactor).out_ptr

\* C12: ForwardInfer called without supplied estimates writes, in both
\* modes, exactly the output that ForwardTrain writes for the same x, scale,
\* bias and epsilon with saving and tracking off.
C12_InferenceWithoutEstimates ==
    (last.op = "ForwardInfer" /\ last.source = "none") => out_ptr = ForwardTrainOutput

\* an inference without estimates over several groups of several members,
\* with an output that is not the bias alone
C12_Witness ==
    /\ last.op = "ForwardInfer" /\ last.source = "none"
    /\ NumGroups > 1 /\ GroupSize > 1
    /\ out_ptr = ForwardTrainOutput
    /\ \E i \in Elems : out_ptr[i] # bias_ptr[GroupOf(i)] /\ out_ptr[i].irr[1] # 0

\* zero-initialised gradient accumulators
ZeroGradientBuffers ==
    /\ dscale_ptr = [g \in Groups |-> Dbl(0, 1)]
    /\ dbias_ptr = [g \in Groups |-> Dbl(0, 1)]

\* what Backward returns for the layer's x, dy, scale and epsilon when it is
\* given no saved statistics and zero-initialised accumulators
BackwardRecomputed ==
    LET zeros == [g \in Groups |-> Dbl(0, 1)]
    IN  IF mode = "PerActivation"
        THEN miopenBNBwdPerActivationRunHost(
                 n_batchs, channels, height, width, in_ptr, dy_ptr, dx_ptr, scale_ptr,
                 zeros, zeros, epsilon, FALSE, saveMean, saveInvVariance)
        ELSE miopenBNBwdSpatialRunHost(
                 n_batchs, channels, height, width, in_ptr, dy_ptr, dx_ptr, scale_ptr,
                 zeros, zeros, epsilon, FALSE, saveMean, saveInvVariance)

\* C13: a Backward call given the statistics that ForwardTrain stored, on
\* zero-initialised dscale/dbias, returns the dx, dscale and dbias that
\* Backward with recomputed statistics returns for the same x, dy, scale and
\* epsilon, in both modes; no Backward call changes the running statistics.
C13_SavedMatchesRecomputed ==
    [][(calls' = calls + 1 /\ last'.op = "Backward") =>
           /\ UNCHANGED <<runningMean, runningVariance>>
           /\ (last.op = "ForwardTrain" /\ last.savemeanvar /\ last'.savedmeanvar
               /\ ZeroGradientBuffers) =>
                  /\ dx_ptr' = BackwardRecomputed.dx_ptr
                  /\ dscale_ptr' = BackwardRecomputed.dscale_ptr
                  /\ dbias_ptr' = BackwardRecomputed.dbias_ptr]_vars

\* a Backward on saved statistics right after the ForwardTrain that stored
\* them, over several groups of several members, with non-zero gradients
C13_Witness ==
    /\ IsBackward(last) /\ last.savedmeanvar
    /\ calls = 2
    /\ NumGroups > 1 /\ GroupSize > 1
    /\ \A g \in Groups :
           saveMean[g] = GroupMean(g) /\ saveInvVariance[g] = GroupInvVariance(g)
    /\ \E g \in Groups : saveInvVariance[g].irr[1] # 0 /\ dscale_ptr[g] # Dbl(0, 1)
    /\ \E i \in Elems : dx_ptr[i] # Dbl(0, 1)
    /\ dx_ptr = BackwardRecomputed.dx_ptr

\* the ForwardTrain function of the mode the layer is not in, applied to the
\* layer's buffers
OtherModeForwardTrain(savemeanvar, runningmeanvar) ==
    IF mode = "PerActivation"
    THEN miopenBNFwdTrainSpatialRunHost(
             n_batchs, channels, height, width, in_ptr, out_ptr, scale_ptr, bias_ptr,
             epsilon, savemeanvar, runningmeanvar, saveMean, saveInvVariance, runningMean,
             runningVariance, expAvgFactor)
    ELSE miopenBNFwdTrainPerActivationRunHost(
             n_batchs, channels, height, width, in_ptr, out_ptr, scale_ptr, bias_ptr,
             epsilon, savemeanvar, runningmeanvar, saveMean, saveInvVariance, runningMean,
             runningVariance, expAvgFactor)

\* the ForwardInfer function of the mode the layer is not in
OtherModeForwardInfer(source) ==
    IF mode = "PerActivation"
    THEN miopenBNFwdInferSpatialRunHost(
             n_batchs, channels, height, width, in_ptr, out_ptr, scale_ptr, bias_ptr,
             epsilon, source # "none", Estimates(source).mean, Estimates(source).variance)
    ELSE miopenBNFwdInferPerActivationRunHost(
             n_batchs, channels, height, width, in_ptr, out_ptr, scale_ptr, bias_ptr,
             epsilon, source # "none", Estimates(source).mean, Estimates(source).variance)

\* C14: when H = W = 1 every ForwardTrain and every ForwardInfer call leaves
\* the y, the saved statistics and the running statistics that the function
\* of the other mode leaves for the same inputs, buffers and flags.
C14_ForwardModeEquivalence ==
    [][(calls' = calls + 1 /\ height = 1 /\ width = 1) =>
           /\ last'.op = "ForwardTrain" =>
                  \A r \in {OtherModeForwardTrain(last'.savemeanvar,
                                                  last'.runningmeanvar)} :
                      /\ out_ptr' = r.out_ptr
                      /\ saveMean' = r.saveMean
                      /\ saveInvVariance' = r.saveInvVariance
                      /\ runningMean' = r.runningMean
                      /\ runningVariance' = r.runningVariance
           /\ last'.op = "ForwardInfer" =>
                  out_ptr' = OtherModeForwardInfer(last'.source)]_vars

\* a saving and tracking ForwardTrain over two channels of a single point,
\* two images each, with a non-zero variance
C14_Witness ==
    /\ IsForwardTrain(last) /\ last.savemeanvar /\ last.runningmeanvar
    /\ height = 1 /\ width = 1 /\ channels > 1 /\ n_batchs > 1
    /\ \E g \in Groups :
           /\ GroupVariance(g) # Dbl(0, 1)
           /\ saveMean[g] = GroupMean(g)
           /\ runningVariance[g] # InitialRunningVariance(g)
    /\ \E i \in Elems : out_ptr[i] # bias_ptr[GroupOf(i)]

\* the Backward function of the mode the layer is not in, applied to the
\* layer's buffers
OtherModeBackward(savedmeanvar) ==
    IF mode = "PerActivation"
    THEN miopenBNBwdSpatialRunHost(
             n_batchs, channels, height, width, in_ptr, dy_ptr, dx_ptr, scale_ptr,
             dscale_ptr, dbias_ptr, epsilon, savedmeanvar, saveMean, saveInvVariance)
    ELSE miopenBNBwdPerActivationRunHost(
             n_batchs, channels, height, width, in_ptr, dy_ptr, dx_ptr, scale_ptr,
             dscale_ptr, dbias_ptr, epsilon, savedmeanvar, saveMean, saveInvVariance)

\* C15: when H = W = 1 every Backward call on zero-initialised gradient
\* buffers leaves the dx, dscale and dbias that the Backward function of the
\* other mode leaves for the same x, dy, scale, statistics and epsilon.
C15_BackwardModeEquivalence ==
    [][(calls' = calls + 1 /\ last'.op = "Backward" /\ height = 1 /\ width = 1
        /\ ZeroGradientBuffers) =>
           LET r == OtherModeBackward(last'.savedmeanvar)
           IN  /\ dx_ptr' = r.dx_ptr
               /\ dscale_ptr' = r.dscale_ptr
               /\ dbias_ptr' = r.dbias_ptr]_vars

(***************************************************************************)
(* Degenerate shapes: a caller that hands the host calls an empty batch or *)
(* an empty image (n_batchs*height*width = 0), with buffers sized to the   *)
(* shape as for any other layer.                                           *)
(***************************************************************************)
InitDegenerate ==
    /\ mode \in {"PerActivation", "Spatial"}
    /\ n_batchs \in 0..MaxDim
    /\ channels \in 1..MaxDim
    /\ height \in 0..MaxDim
    /\ width \in 0..MaxDim
    /\ n_batchs * height * width = 0
    /\ \E scalars \in ScalarConfigs :
           /\ epsilon = scalars.epsilon
           /\ expAvgFactor = scalars.expAvgFactor
    /\ \E seed \in 0..MaxSeed :
           /\ in_ptr = [i \in 0..(NumElems - 1) |-> XPattern(seed, i)]
           /\ dy_ptr = [i \in 0..(NumElems - 1) |-> DyPattern(seed, i)]
           /\ scale_ptr = [g \in 0..(NumGroups - 1) |-> ScalePattern(seed, g)]
           /\ bias_ptr = [g \in 0..(NumGroups - 1) |-> BiasPattern(seed, g)]
    /\ estimatedMean = [g \in 0..(NumGroups - 1) |-> Dbl(g + 1, 2)]
    /\ estimatedVariance = [g \in 0..(NumGroups - 1) |-> Dbl(g + 3, 4)]
    /\ out_ptr = [i \in 0..(NumElems - 1) |-> Dbl(0, 1)]
    /\ saveMean = [g \in 0..(NumGroups - 1) |-> Dbl(0, 1)]
    /\ saveInvVariance = [g \in 0..(NumGroups - 1) |-> Dbl(0, 1)]
    /\ runningMean = [g \in 0..(NumGroups - 1) |-> InitialRunningMean(g)]
    /\ runningVariance = [g \in 0..(NumGroups - 1) |-> InitialRunningVariance(g)]
    /\ dx_ptr = [i \in 0..(NumElems - 1) |-> Dbl(0, 1)]
    /\ dscale_ptr = [g \in 0..(NumGroups - 1) |-> Dbl(0, 1)]
    /\ dbias_ptr = [g \in 0..(NumGroups - 1) |-> Dbl(0, 1)]
    /\ last = [op |-> "none"]
    /\ calls = 0
    /\ NothingLaunched

SpecDegenerate == InitDegenerate /\ [][Next]_vars

\* C16: a call with a zero-sized batch or an empty image is rejected before
\* any reduction loop: it returns a non-success result and writes nothing to
\* y, the saved statistics, the running statistics or the gradients.
C16_ConfigurationErrorsRejected ==
    [][(calls' = calls + 1 /\ n_batchs * height * width = 0) =>
           /\ last'.ret # 0
           /\ UNCHANGED <<fwdVars, bwdVars>>]_vars

\* a non-finite value written by a call on a degenerate shape
C16_NonFiniteWritten ==
    /\ n_batchs * height * width = 0
    /\ last.op # "none" /\ last.ret = 0
    /\ \E g \in 0..(NumGroups - 1) :
           \/ ~IsFinite(saveMean[g]) \/ ~IsFinite(runningMean[g])
           \/ ~IsFinite(dscale_ptr[g])

\* C17: no call writes to its read-only inputs: x, dy, scale, bias and the
\* supplied estimatedMean/estimatedVariance keep their values over every
\* ForwardTrain, ForwardInfer and Backward call, and a Backward call leaves
\* savedMean/savedInvVariance as the forward pass stored them.
C17_ReadOnlyInputs ==
    [][/\ UNCHANGED <<in_ptr, dy_ptr, scale_ptr, bias_ptr, estimatedMean,
                      estimatedVariance>>
       /\ last'.op = "Backward" => UNCHANGED <<saveMean, saveInvVariance>>]_vars

\* a ForwardTrain that stored statistics and then a Backward that recomputed
\* its own: the inputs are those of the initial state, the saved statistics
\* those of the forward pass
C17_Witness ==
    /\ IsBackward(last) /\ ~last.savedmeanvar
    /\ calls = 2
    /\ GroupSize > 1
    /\ \E seed \in 0..MaxSeed :
           /\ in_ptr = [i \in Elems |-> XPattern(seed, i)]
           /\ dy_ptr = [i \in Elems |-> DyPattern(seed, i)]
           /\ scale_ptr = [g \in Groups |-> ScalePattern(seed, g)]
           /\ bias_ptr = [g \in Groups |-> BiasPattern(seed, g)]
    /\ \A g \in Groups :
           saveMean[g] = GroupMean(g) /\ saveInvVariance[g] = GroupInvVariance(g)
    /\ \E g \in Groups : saveMean[g] # Dbl(0, 1)
    /\ \E i \in Elems : dx_ptr[i] # Dbl(0, 1)

\* |a - b| for rational a and b
Distance(a, b) ==
    LET d == RSub(a, b)
    IN  [d EXCEPT !.rat = <<Abs(d.rat[1]), d.rat[2]>>]

\* a < b for rational a and b
Less(a, b) == a.rat[1] * b.rat[2] < b.rat[1] * a.rat[2]

\* the variance the running variance is blended with: variance*M/(M-1),
\* the biased variance itself over groups of one member
AdjustedVariance(g) ==
    IF GroupSize = 1 THEN GroupVariance(g)
    ELSE RDiv(RMul(GroupVariance(g), Dbl(GroupSize, 1)), Dbl(GroupSize - 1, 1))

\* C18: with the batch fixed and 0 < momentum < 1, every tracked ForwardTrain
\* call strictly decreases |runningMean[g] - mean_g| and
\* |runningVariance[g] - adjustedVariance_g| for every group g unless the
\* distance is already 0, and a distance of 0 stays 0.  Each call multiplies
\* the first distance by 1 - momentum and the second by momentum, constant
\* factors below 1, so both distances fall below any positive tolerance
\* after finitely many calls.
C18_RunningStatisticsConverge ==
    [][TrackedTrainStep =>
           \A g \in Groups :
               LET dMean == Distance(runningMean[g], GroupMean(g))
                   dMeanNext == Distance(runningMean'[g], GroupMean(g))
                   dVar == Distance(runningVariance[g], AdjustedVariance(g))
                   dVarNext == Distance(runningVariance'[g], AdjustedVariance(g))
               IN  /\ Less(Dbl(0, 1), expAvgFactor) /\ Less(expAvgFactor, Dbl(1, 1))
                   /\ dMeanNext = RMul(RSub(Dbl(1, 1), expAvgFactor), dMean)
                   /\ dVarNext = RMul(expAvgFactor, dVar)
                   /\ dMean # Dbl(0, 1) => Less(dMeanNext, dMean)
                   /\ dVar # Dbl(0, 1) => Less(dVarNext, dVar)
                   /\ dMean = Dbl(0, 1) => dMeanNext = Dbl(0, 1)
                   /\ dVar = Dbl(0, 1) => dVarNext = Dbl(0, 1)]_vars

\* two tracked calls in a row on the same batch: both distances of some
\* group are non-zero and below those of the initial running statistics
C18_Witness ==
    /\ IsForwardTrain(last) /\ last.runningmeanvar
    /\ calls = 2
    /\ GroupSize > 1
    /\ \E g \in Groups :
           LET once == RunningMeanUpdate(InitialRunningMean(g), GroupMean(g))
               dMean == Distance(runningMean[g], GroupMean(g))
               dVar == Distance(runningVariance[g], AdjustedVariance(g))
           IN  /\ runningMean[g] = RunningMeanUpdate(once, GroupMean(g))
               /\ dMean # Dbl(0, 1)
               /\ Less(dMean, Distance(once, GroupMean(g)))
               /\ Less(Distance(once, GroupMean(g)),
                       Distance(InitialRunningMean(g), GroupMean(g)))
               /\ dVar # Dbl(0, 1)
               /\ Less(dVar, Distance(InitialRunningVariance(g), AdjustedVariance(g)))

\* the population variance of the outputs of group g:
\* (1/M)*sum (y_i - ybar)^2 with ybar = (1/M)*sum y_i
OutputVariance(g) ==
    LET M == Dbl(GroupSize, 1)
        ybar == RDiv(SumOver(out_ptr, Members(g)), M)
        sq == [i \in Elems |-> RMul(RSub(out_ptr[i], ybar), RSub(out_ptr[i], ybar))]
    IN  RDiv(SumOver(sq, Members(g)), M)

\* a group of several members with a non-zero variance, scale 1 and bias 0
UnitGroup(g) ==
    /\ GroupSize > 1
    /\ GroupVariance(g) # Dbl(0, 1)
    /\ scale_ptr[g] = Dbl(1, 1)
    /\ bias_ptr[g] = Dbl(0, 1)

\* C19: after ForwardTrain, the outputs of every group with M > 1, a
\* non-zero variance, scale 1 and bias 0 sum to 0 over the group and have
\* the population variance variance/(variance + epsilon).
C19_NormalizationIdentity ==
    IsForwardTrain(last) =>
        \A g \in Groups :
            UnitGroup(g) =>
                /\ SumOver(out_ptr, Members(g)) = Dbl(0, 1)
                /\ OutputVariance(g) =
                       RDiv(GroupVariance(g), RAdd(GroupVariance(g), epsilon))

\* ForwardTrain over such a group: the outputs are not all 0
\* and their variance is below 1
C19_Witness ==
    /\ IsForwardTrain(last)
    /\ \E g \in Groups :
           /\ UnitGroup(g)
           /\ \E i \in Members(g) : out_ptr[i] # Dbl(0, 1)
           /\ Less(Dbl(0, 1), OutputVariance(g))
           /\ Less(OutputVariance(g), Dbl(1, 1))

\* the per-activation layer of the gradient check: one group of four
\* samples x = [1,2,3,4] with scale 1 and bias 0, and an upstream gradient
\* dy of entries -1, 0 and 1.  epsilon is 1/20736 (4.8e-5): the variance of
\* x is 5/4 and 5/4 + 1/20736 = (161/144)^2, so that 1/sqrt(variance +
\* epsilon) = 144/161 and every value of the call is a rational of small
\* numerator and denominator.  With epsilon = 1/100000 the entries of dx
\* are multiples of sqrt(138890)/5208416667 in lowest terms, beyond the
\* integers of the checker.
InitGradientCheck ==
    /\ mode = "PerActivation"
    /\ n_batchs = 4
    /\ channels = 1
    /\ height = 1
    /\ width = 1
    /\ epsilon = Dbl(1, 20736)
    /\ expAvgFactor = Dbl(1, 4)
    /\ in_ptr = [i \in 0..3 |-> Dbl(i + 1, 1)]
    /\ dy_ptr \in [0..3 -> {Dbl(-1, 1), Dbl(0, 1), Dbl(1, 1)}]
    /\ scale_ptr = [g \in {0} |-> Dbl(1, 1)]
    /\ bias_ptr = [g \in {0} |-> Dbl(0, 1)]
    /\ estimatedMean = [g \in {0} |-> Dbl(1, 2)]
    /\ estimatedVariance = [g \in {0} |-> Dbl(3, 4)]
    /\ out_ptr = [i \in 0..3 |-> Dbl(0, 1)]
    /\ saveMean = [g \in {0} |-> Dbl(0, 1)]
    /\ saveInvVariance = [g \in {0} |-> Dbl(0, 1)]
    /\ runningMean = [g \in {0} |-> InitialRunningMean(g)]
    /\ runningVariance = [g \in {0} |-> InitialRunningVariance(g)]
    /\ dx_ptr = [i \in 0..3 |-> Dbl(0, 1)]
    /\ dscale_ptr = [g \in {0} |-> Dbl(0, 1)]
    /\ dbias_ptr = [g \in {0} |-> Dbl(0, 1)]
    /\ last = [op |-> "none"]
    /\ calls = 0
    /\ NothingLaunched

\* the per-activation entry points
NextPerActivation ==
    \/ FwdTrainPerActivation
    \/ FwdInferPerActivation
    \/ BwdPerActivation

SpecGradientCheck == InitGradientCheck /\ [][NextPerActivation]_vars

\* p <= q for finite rationals, by comparing integer parts and then the
\* reciprocals of the fractional parts
RECURSIVE QLeq(_,_)
QLeq(p, q) ==
    LET fp == p[1] \div p[2]
        fq == q[1] \div q[2]
        rp == p[1] % p[2]
        rq == q[1] % q[2]
    IN  IF fp # fq THEN fp < fq
        ELSE IF rp = 0 THEN TRUE
        ELSE IF rq = 0 THEN FALSE
        ELSE QLeq(<<q[2], rq>>, <<p[2], rp>>)

\* b*sqrt(m) <= c for rationals b and c
SqrtLeq(b, m, c) ==
    \E bv \in {b}, cv \in {c} :
        IF bv[1] = 0 THEN cv[1] >= 0
        ELSE IF bv[1] < 0 /\ cv[1] >= 0 THEN TRUE
        ELSE IF bv[1] > 0 /\ cv[1] < 0 THEN FALSE
        ELSE \E bbm \in {QMul(QMul(bv, bv), <<m, 1>>)}, cc \in {QMul(cv, cv)} :
                 IF bv[1] > 0 THEN QLeq(bbm, cc) ELSE QLeq(cc, bbm)

\* p - q over the least common denominator
QSub(p, q) ==
    CHOOSE r \in {QNorm(p[1] * (q[2] \div g) - q[1] * (p[2] \div g), (p[2] \div g) * q[2]) :
                  g \in {Gcd(p[2], q[2])}} : TRUE

\* x - y for finite x and y
Difference(x, y) ==
    CHOOSE r \in {IF ~IsFinite(a) \/ ~IsFinite(b) THEN NaN
                  ELSE RCanon(QSub(a.rat, b.rat), QSub(a.irr, b.irr), JoinRad(a, b)) :
                  a \in {x}, b \in {y}} : TRUE

\* |d| <= tol for a real d and a rational tol > 0
WithinTolerance(d, tol) ==
    \E v \in {d} :
        /\ IsFinite(v)
        /\ IF v.irr[1] = 0 THEN QLeq(<<Abs(v.rat[1]), v.rat[2]>>, tol)
           ELSE /\ SqrtLeq(v.irr, v.rad, QAdd(tol, QNeg(v.rat)))
                /\ SqrtLeq(QNeg(v.irr), v.rad, QAdd(tol, v.rat))

\* the derivative of sum_j dy_j*y_j with respect to x_i, for
\* y_j = scale*(x_j - mean)/sqrt(variance + epsilon) + bias over the group
\* of i:  (scale*invVar/M)*(M*dy_i - sum dy_j - xhat_i*sum xhat_j*dy_j)
TrueGradient(i) ==
    LET g == GroupOf(i)
        M == Dbl(GroupSize, 1)
        Gradient(invVar, xhat, sumDy, sumXhatDy) ==
            RMul(RDiv(RMul(scale_ptr[g], invVar), M),
                 RSub(RSub(RMul(M, dy_ptr[i]), sumDy), RMul(xhat[i], sumXhatDy)))
        Sums(invVar, xhat) ==
            CHOOSE r \in {Gradient(invVar, xhat, sumDy, sumXhatDy) :
                              sumDy \in {SumOver(dy_ptr, Members(g))},
                              sumXhatDy \in {SumOver([j \in Elems |-> RMul(xhat[j], dy_ptr[j])],
                                                      Members(g))}} : TRUE
        Normalized(mean, invVar) ==
            CHOOSE r \in {Sums(invVar, xhat) :
                              xhat \in {[j \in Elems |-> RMul(RSub(in_ptr[j], mean), invVar)]}} : TRUE
    IN  CHOOSE r \in {Normalized(mean, invVar) :
                          mean \in {GroupMean(g)}, invVar \in {GroupInvVariance(g)}} : TRUE

\* a Backward call working with the statistics of the batch: recomputed, or
\* saved by ForwardTrain
BackwardOnBatchStatistics ==
    /\ IsBackward(last)
    /\ last.savedmeanvar =>
           \A g \in Groups :
               saveMean[g] = GroupMean(g) /\ saveInvVariance[g] = GroupInvVariance(g)

\* C20: for the per-activation group x = [1,2,3,4] with scale 1, bias 0 and
\* a small epsilon (1e-5 in the claim, 1/20736 here), and any upstream
\* gradient dy, every dx_i returned by Backward is within 1e-4 of the
\* derivative of sum_j dy_j*y_j with respect to x_i.
C20_GradientConsistency ==
    BackwardOnBatchStatistics =>
        \A i \in Elems :
            WithinTolerance(Difference(dx_ptr[i], TrueGradient(i)), <<1, 10000>>)

\* Backward returned a dx entry more than 1/2 away from the derivative
C20_GradientOff ==
    /\ BackwardOnBatchStatistics
    /\ \E i \in Elems :
           /\ IsFinite(dx_ptr[i])
           /\ ~WithinTolerance(Difference(dx_ptr[i], TrueGradient(i)), <<1, 2>>)

\* what the Backward function of the layer's mode returns when the caller's
\* dscale and dbias buffers hold the values given, everything else as it is
BackwardFromBuffers(savedmeanvar, dscale, dbias) ==
    IF mode = "PerActivation"
    THEN miopenBNBwdPerActivationRunHost(
             n_batchs, channels, height, width, in_ptr, dy_ptr, dx_ptr, scale_ptr,
             dscale, dbias, epsilon, savedmeanvar, saveMean, saveInvVariance)
    ELSE miopenBNBwdSpatialRunHost(
             n_batchs, channels, height, width, in_ptr, dy_ptr, dx_ptr, scale_ptr,
             dscale, dbias, epsilon, savedmeanvar, saveMean, saveInvVariance)

\* C22: the dbias, dscale and dx that a Backward call returns do not depend
\* on what the caller's dbias and dscale buffers held before the call: the
\* call made on the buffers as they are returns what the same call made on
\* zeroed buffers returns, on every path of both modes.
C22_BufferIndependence ==
    [][(calls' = calls + 1 /\ last'.op = "Backward") =>
           \A r \in {BackwardFromBuffers(last'.savedmeanvar,
                                         [g \in Groups |-> Dbl(0, 1)],
                                         [g \in Groups |-> Dbl(0, 1)])} :
               /\ dx_ptr' = r.dx_ptr
               /\ dscale_ptr' = r.dscale_ptr
               /\ dbias_ptr' = r.dbias_ptr]_vars

\* a second Backward call whose dbias differs from the dbias the same call
\* returns on zeroed buffers
C22_BuffersAccumulated ==
    /\ IsBackward(last)
    /\ calls = 2
    /\ \E g \in Groups :
           dbias_ptr[g] # BackwardFromBuffers(last.savedmeanvar,
                                              [h \in Groups |-> Dbl(0, 1)],
                                              [h \in Groups |-> Dbl(0, 1)]).dbias_ptr[g]

\* the group sum that the second loop of Backward multiplies xhat_i with,
\* the factor scale included, for a call of the function of mode m on zeroed
\* dscale/dbias buffers: per-activation it is dxhathat = sum scale*dy*xhat
\* (tmp1 = xhat*dxhathat + dxhat), spatial it is scale*dscale_ptr[cidx]
\* (tmp2 = -xhat*dscale_ptr[cidx]; tmp3 = scale*invVar/NHW)
XhatTermSum(m, g, savedmeanvar) ==
    LET in_nstride == channels * height * width
        in_cstride == height * width
        NHW == Dbl(n_batchs * in_cstride, 1)
        zeros == [h \in Groups |-> Dbl(0, 1)]
        xhat == [i \in 0..(n_batchs * in_cstride - 1) |-> Dbl(0, 1)]
    IN  IF m = "PerActivation"
        THEN Local(IF savedmeanvar THEN saveMean[g]
                   ELSE PerActBwdMean(n_batchs, in_nstride, in_ptr, g),
                   LAMBDA mean :
             Local(IF savedmeanvar THEN saveInvVariance[g]
                   ELSE PerActBwdInvVar(n_batchs, in_nstride, in_ptr, g, mean, epsilon),
                   LAMBDA elemInvVar :
                 PerActBwdSums(n_batchs, in_nstride, in_cstride, in_ptr, dy_ptr,
                               scale_ptr, g, g % in_cstride, mean, elemInvVar,
                               [xhat |-> xhat, dbias_ptr |-> zeros,
                                dscale_ptr |-> zeros]).dxhathat))
        ELSE Local(SpatialBwdVisit(n_batchs, height, width, in_nstride, in_cstride, g),
                   LAMBDA visit :
             Local(IF savedmeanvar THEN saveMean[g]
                   ELSE SpatialBwdMean(visit, in_ptr, NHW),
                   LAMBDA mean :
             Local(IF savedmeanvar THEN saveInvVariance[g]
                   ELSE SpatialBwdInvVar(visit, in_ptr, mean, epsilon, NHW),
                   LAMBDA invVar :
                 RMul(scale_ptr[g],
                      IF savedmeanvar
                      THEN SpatialBwdSavedSums(visit, in_ptr, dy_ptr, zeros, zeros, g,
                                               mean, invVar, NHW).dscale_ptr[g]
                      ELSE SpatialBwdSums(visit, in_ptr, dy_ptr, zeros, zeros, xhat, g,
                                          mean, invVar, NHW).dscale_ptr[g]))))

\* C23: one dscale convention: on every Backward path, from zeroed buffers,
\* the group sum the dx loop multiplies xhat_i with is scale[g] times the
\* dscale[g] the call reports (both the raw sum of xhat_i*dy_i or both the
\* sum divided by M), and with H = W = 1 the per-activation and the spatial
\* function use the same sum.
C23_OneDscaleConvention ==
    [][(calls' = calls + 1 /\ last'.op = "Backward" /\ ZeroGradientBuffers) =>
           \A g \in Groups :
               /\ XhatTermSum(mode, g, last'.savedmeanvar) =
                      RMul(scale_ptr[g], dscale_ptr'[g])
               /\ (height = 1 /\ width = 1) =>
                      XhatTermSum("PerActivation", g, last'.savedmeanvar) =
                          XhatTermSum("Spatial", g, last'.savedmeanvar)]_vars

\* a first per-activation Backward over groups of several members that
\* reports a non-zero dscale[g] which, times scale[g], is not the sum its dx
\* loop used
C23_TwoConventions ==
    /\ IsBackward(last) /\ calls = 1
    /\ mode = "PerActivation" /\ n_batchs > 1
    /\ \E g \in Groups :
           /\ dscale_ptr[g] # Dbl(0, 1)
           /\ XhatTermSum(mode, g, last.savedmeanvar) #
                  RMul(scale_ptr[g], dscale_ptr[g])

\* C27: after a Backward call that worked with the statistics of the batch,
\* in either mode, the dx values of every group sum to zero.
C27_GradientSumsToZero ==
    BackwardOnBatchStatistics =>
        \A g \in Groups : SumOver(dx_ptr, Members(g)) = Dbl(0, 1)

\* a first Backward with recomputed statistics, per-activation, whose dx
\* over a group of several members has a finite non-zero sum
C27_GradientSumNotZero ==
    /\ IsBackward(last) /\ ~last.savedmeanvar /\ calls = 1
    /\ mode = "PerActivation" /\ n_batchs > 1
    /\ \E g \in Groups :
           /\ IsFinite(SumOver(dx_ptr, Members(g)))
           /\ SumOver(dx_ptr, Members(g)) # Dbl(0, 1)

(***************************************************************************)
(* The Where operator's backward pass: the device kernel, one thread per   *)
(* output-gradient position, against the sequential host reference.        *)
(***************************************************************************)

\* a gradient the caller does not ask for
nullptr == <<>>

\* the layer is not in use while a kernel of another operator runs
NoLayer ==
    /\ mode = "none"
    /\ n_batchs = 0 /\ channels = 0 /\ height = 0 /\ width = 0
    /\ epsilon = Dbl(0, 1) /\ expAvgFactor = Dbl(0, 1)
    /\ in_ptr = <<>> /\ dy_ptr = <<>> /\ scale_ptr = <<>> /\ bias_ptr = <<>>
    /\ estimatedMean = <<>> /\ estimatedVariance = <<>>
    /\ out_ptr = <<>> /\ saveMean = <<>> /\ saveInvVariance = <<>>
    /\ runningMean = <<>> /\ runningVariance = <<>>
    /\ dx_ptr = <<>> /\ dscale_ptr = <<>> /\ dbias_ptr = <<>>
    /\ last = [op |-> "none"]
    /\ calls = 0

\* the number of elements of a device buffer
NumEl(buffer) == Cardinality(DOMAIN buffer)

\* input_grad[gid % input_size + input_grad_off] =
\*     output_grad[gid + output_grad_off] * condition[gid % condition_size + condition_off];
WhereInputGradStore(condition_, output_grad_, input_grad_, output_grad_off, condition_off, input_grad_off, condition_size, input_size, gid) ==
    IF input_grad_ # nullptr
    THEN [input_grad_ EXCEPT ![(gid % input_size) + input_grad_off] =
              RMul(output_grad_[gid + output_grad_off],
                   Dbl(condition_[(gid % condition_size) + condition_off], 1))]
    ELSE input_grad_

\* other_grad[gid % other_size + other_grad_off] =
\*     output_grad[gid + output_grad_off] * (1 - condition[gid % condition_size + condition_off]);
WhereOtherGradStore(condition_, output_grad_, other_grad_, output_grad_off, condition_off, other_grad_off, condition_size, other_size, gid) ==
    IF other_grad_ # nullptr
    THEN [other_grad_ EXCEPT ![(gid % other_size) + other_grad_off] =
              RMul(output_grad_[gid + output_grad_off],
                   Dbl(1 - condition_[(gid % condition_size) + condition_off], 1))]
    ELSE other_grad_

\* the sequential reference: for(size_t o = 0; o < output_grad_numel; o++)
mloWhereBackwardRunHost(outputGrad, condition_, inputGrad, otherGrad, input_grad_contig_size, other_grad_contig_size, cond_contig_size, output_grad_numel) ==
    LET Body(st, o) ==
            Local(Dbl(condition_[o % cond_contig_size], 1), LAMBDA cond :
                [inputGrad |->
                     IF st.inputGrad # nullptr
                     THEN [st.inputGrad EXCEPT ![o % input_grad_contig_size] =
                               RMul(outputGrad[o], cond)]
                     ELSE st.inputGrad,
                 otherGrad |->
                     IF st.otherGrad # nullptr
                     THEN [st.otherGrad EXCEPT ![o % other_grad_contig_size] =
                               RMul(outputGrad[o], RSub(Dbl(1, 1), cond))]
                     ELSE st.otherGrad])
    IN  ForLoop(Body, [inputGrad |-> inputGrad, otherGrad |-> otherGrad], 0,
                output_grad_numel)

\* the kernel's size arguments, as the launch passes them
WhereSize == NumEl(output_grad)
WhereConditionSize == NumEl(condition)
WhereInputSize == NumEl(input_grad)
WhereOtherSize == NumEl(other_grad)

\* the contiguous sizes a tensor broadcast to size elements can have
BroadcastSizes(size) == {d \in 1..size : size % d = 0}

\* a zeroed gradient buffer, or none
GradBuffers(size) ==
    {nullptr} \cup {[j \in 0..(d - 1) |-> Dbl(0, 1)] : d \in BroadcastSizes(size)}

InitWhere ==
    /\ NoLayer
    /\ NoHipLaunch
    /\ NoHostSteps
    /\ \E size \in 1..MaxWhereSize :
           /\ output_grad = [o \in 0..(size - 1) |-> Dbl(o + 1, 1)]
           /\ \E condition_size \in BroadcastSizes(size) :
                  condition \in [0..(condition_size - 1) -> {0, 1}]
           /\ input_grad \in GradBuffers(size)
           /\ other_grad \in GradBuffers(size)
           \* the grid covers the size positions; a thread beyond them returns
           /\ where_pc = [gid \in 0..size |-> "entry"]

\* if(gid >= size) return;
WhereThreadReturns(gid) ==
    /\ where_pc[gid] = "entry"
    /\ gid >= WhereSize
    /\ where_pc' = [where_pc EXCEPT ![gid] = "done"]
    /\ UNCHANGED <<layerVars, hipVars, stepVars, condition, output_grad, input_grad, other_grad>>

\* if(input_grad) { input_grad[...] = ...; }
WhereThreadStoresInputGrad(gid) ==
    /\ where_pc[gid] = "entry"
    /\ gid < WhereSize
    /\ input_grad' = WhereInputGradStore(condition, output_grad, input_grad, 0, 0, 0,
                                         WhereConditionSize, WhereInputSize, gid)
    /\ where_pc' = [where_pc EXCEPT ![gid] = "other_grad"]
    /\ UNCHANGED <<layerVars, hipVars, stepVars, condition, output_grad, other_grad>>

\* if(other_grad) { other_grad[...] = ...; }
WhereThreadStoresOtherGrad(gid) ==
    /\ where_pc[gid] = "other_grad"
    /\ other_grad' = WhereOtherGradStore(condition, output_grad, other_grad, 0, 0, 0,
                                         WhereConditionSize, WhereOtherSize, gid)
    /\ where_pc' = [where_pc EXCEPT ![gid] = "done"]
    /\ UNCHANGED <<layerVars, hipVars, stepVars, condition, output_grad, input_grad>>

\* the threads of the grid run in any interleaving
NextWhere ==
    \/ \E gid \in DOMAIN where_pc : WhereThreadReturns(gid)
    \/ \E gid \in DOMAIN where_pc : WhereThreadStoresInputGrad(gid)
    \/ \E gid \in DOMAIN where_pc : WhereThreadStoresOtherGrad(gid)

SpecWhere == InitWhere /\ [][NextWhere]_vars

\* every thread of the grid has finished
WhereKernelDone == \A gid \in DOMAIN where_pc : where_pc[gid] = "done"

\* what the host reference computes for the launch's buffers
WhereHostReference ==
    mloWhereBackwardRunHost(output_grad, condition, input_grad, other_grad, WhereInputSize,
                            WhereOtherSize, WhereConditionSize, WhereSize)

\* C30: when every thread of the WhereBroadcastedContiguousBackward kernel has
\* finished, whatever the interleaving was, input_grad and other_grad equal
\* the gradients of the sequential host reference mloWhereBackwardRunHost,
\* also when input_size or other_size is smaller than size.
C30_KernelMatchesHost ==
    WhereKernelDone =>
        \A r \in {WhereHostReference} :
            /\ input_grad = r.inputGrad
            /\ other_grad = r.otherGrad

\* a finished launch with a broadcast input gradient whose element holds a
\* value the host reference does not produce
C30_LastWriterDiffers ==
    /\ WhereKernelDone
    /\ input_grad # nullptr
    /\ WhereInputSize < WhereSize
    /\ input_grad # WhereHostReference.inputGrad

(***************************************************************************)
(* The HIP inference kernels MIOpenBatchNormFwdInferSpatialEstHIP and      *)
(* MIOpenBatchNormFwdInferPerActivationEstHIP, launched as the port test   *)
(* launches them, one step per iteration of a thread's inner loop.         *)
(***************************************************************************)

\* a + b*sqrt(m) < 0
Negative(x) ==
    LET a == x.rat
        b == x.irr
        aa == (a[1] * a[1]) * (b[2] * b[2])
        bb == (b[1] * b[1]) * x.rad * (a[2] * a[2])
    IN  IF b[1] = 0 THEN a[1] < 0
        ELSE IF a[1] <= 0 /\ b[1] < 0 THEN TRUE
        ELSE IF a[1] >= 0 /\ b[1] > 0 THEN FALSE
        ELSE IF a[1] < 0 THEN aa > bb
        ELSE bb > aa

fabs(x) == IF ~IsFinite(x) THEN NaN ELSE IF Negative(x) THEN RNeg(x) ELSE x

rsqrt(x) == RInv(sqrt(x))

fma(a, b, c) == RAdd(RMul(a, b), c)

\* the kernel arguments n, in_cstride, in_nstride of the launch
batchSize == n_batchs
imageDims == height * width
batchStride == channels * imageDims

\* the launch geometry: vld = {xlocalsize, ylocalsize, 1}, vgd = {xgridsize, ygridsize, 1}
xlocalsize == 1
xgridsize == channels
ylocalsize == 256
ygridsize == ylocalsize * ((imageDims + ylocalsize - 1) \div ylocalsize)

\* the threads of the grid, <<xidx, yidx>>
Grid == (0..(xgridsize - 1)) \X (0..(ygridsize - 1))

\* an index within a device buffer
InBuffer(index, buffer) == index \in DOMAIN buffer

\* bn_fwd_infer_spatial with epsilon left out of the inverse deviation
bn_fwd_infer_spatial_NoEpsilon(xidx, idx, n) ==
    Local((n * batchStride) + (xidx * imageDims) + idx, LAMBDA index :
        IF ~(/\ InBuffer(xidx, estimatedMean) /\ InBuffer(xidx, estimatedVariance)
             /\ InBuffer(xidx, scale_ptr) /\ InBuffer(xidx, bias_ptr)
             /\ InBuffer(index, in_ptr) /\ InBuffer(index, out_dev))
        THEN [index |-> index, inside |-> FALSE, value |-> NaN]
        ELSE
        Local(estimatedMean[xidx], LAMBDA mean :
        Local(estimatedVariance[xidx], LAMBDA variance :
        Local(scale_ptr[xidx], LAMBDA pscale :
        Local(bias_ptr[xidx], LAMBDA pbias :
        Local(rsqrt(fabs(variance)), LAMBDA invVariance :
        Local(RMul(RSub(in_ptr[index], mean), invVariance), LAMBDA inhat :
            [index |-> index, inside |-> TRUE,
             value |-> fma(pscale, inhat, pbias)])))))))

\* bn_fwd_infer_spatial, thread xidx at idx and n: the parameters it loaded
\* on entry, the element it addresses and the value it stores there
bn_fwd_infer_spatial(xidx, idx, n) ==
    Local((n * batchStride) + (xidx * imageDims) + idx, LAMBDA index :
        IF ~(/\ InBuffer(xidx, estimatedMean) /\ InBuffer(xidx, estimatedVariance)
             /\ InBuffer(xidx, scale_ptr) /\ InBuffer(xidx, bias_ptr)
             /\ InBuffer(index, in_ptr) /\ InBuffer(index, out_dev))
        THEN [index |-> index, inside |-> FALSE, value |-> NaN]
        ELSE
        Local(estimatedMean[xidx], LAMBDA mean :
        Local(estimatedVariance[xidx], LAMBDA variance :
        Local(scale_ptr[xidx], LAMBDA pscale :
        Local(bias_ptr[xidx], LAMBDA pbias :
        Local(rsqrt(fabs(RAdd(variance, epsilon))), LAMBDA invVariance :
        Local(RMul(RSub(in_ptr[index], mean), invVariance), LAMBDA inhat :
            [index |-> index, inside |-> TRUE,
             value |-> fma(pscale, inhat, pbias)])))))))

\* bn_fwd_infer_per_activation with the batch stride taken for the image size
bn_fwd_infer_per_activation_ImageStride(grpid, img_offset, n) ==
    Local((grpid * imageDims) + img_offset, LAMBDA adjIndex :
    Local((imageDims * n) + adjIndex, LAMBDA index :
        IF ~(/\ InBuffer(adjIndex, estimatedMean) /\ InBuffer(adjIndex, estimatedVariance)
             /\ InBuffer(adjIndex, scale_ptr) /\ InBuffer(adjIndex, bias_ptr)
             /\ InBuffer(index, in_ptr) /\ InBuffer(index, out_dev))
        THEN [index |-> index, inside |-> FALSE, value |-> NaN]
        ELSE
        Local(estimatedMean[adjIndex], LAMBDA mean :
        Local(estimatedVariance[adjIndex], LAMBDA variance :
        Local(rsqrt(fabs(RAdd(variance, epsilon))), LAMBDA invVariance :
        Local(scale_ptr[adjIndex], LAMBDA pvt_scale :
        Local(bias_ptr[adjIndex], LAMBDA pvt_bias :
        Local(RMul(RSub(in_ptr[index], mean), invVariance), LAMBDA inhat :
            [index |-> index, inside |-> TRUE,
             value |-> fma(pvt_scale, inhat, pvt_bias)]))))))))

\* bn_fwd_infer_per_activation, thread of group grpid at img_offset and n
bn_fwd_infer_per_activation(grpid, img_offset, n) ==
    Local((grpid * imageDims) + img_offset, LAMBDA adjIndex :
    Local((batchStride * n) + adjIndex, LAMBDA index :
        IF ~(/\ InBuffer(adjIndex, estimatedMean) /\ InBuffer(adjIndex, estimatedVariance)
             /\ InBuffer(adjIndex, scale_ptr) /\ InBuffer(adjIndex, bias_ptr)
             /\ InBuffer(index, in_ptr) /\ InBuffer(index, out_dev))
        THEN [index |-> index, inside |-> FALSE, value |-> NaN]
        ELSE
        Local(estimatedMean[adjIndex], LAMBDA mean :
        Local(estimatedVariance[adjIndex], LAMBDA variance :
        Local(rsqrt(fabs(RAdd(variance, epsilon))), LAMBDA invVariance :
        Local(scale_ptr[adjIndex], LAMBDA pvt_scale :
        Local(bias_ptr[adjIndex], LAMBDA pvt_bias :
        Local(RMul(RSub(in_ptr[index], mean), invVariance), LAMBDA inhat :
            [index |-> index, inside |-> TRUE,
             value |-> fma(pvt_scale, inhat, pvt_bias)]))))))))

\* the estimated variances the test hands to the kernel; the kernel takes
\* any value, also a negative one
VariancePattern(vseed, g) == IF vseed = 0 THEN Dbl(g + 3, 4) ELSE Dbl(g - 2, 1)

InitHipInfer ==
    /\ mode \in {"PerActivation", "Spatial"}
    /\ n_batchs \in 1..MaxDim
    /\ channels \in 1..MaxDim
    /\ height \in 1..MaxDim
    /\ width \in 1..MaxDim
    /\ NumElems <= MaxElems
    /\ \E scalars \in ScalarConfigs :
           /\ epsilon = scalars.epsilon
           /\ expAvgFactor = scalars.expAvgFactor
    /\ \E seed \in 0..MaxSeed :
           /\ in_ptr = [i \in 0..(NumElems - 1) |-> XPattern(seed, i)]
           /\ scale_ptr = [g \in 0..(NumGroups - 1) |-> ScalePattern(seed, g)]
           /\ bias_ptr = [g \in 0..(NumGroups - 1) |-> BiasPattern(seed, g)]
    /\ dy_ptr = [i \in 0..(NumElems - 1) |-> Dbl(0, 1)]
    /\ estimatedMean = [g \in 0..(NumGroups - 1) |-> Dbl(g + 1, 2)]
    /\ \E vseed \in 0..MaxSeed :
           estimatedVariance = [g \in 0..(NumGroups - 1) |-> VariancePattern(vseed, g)]
    /\ out_ptr = [i \in 0..(NumElems - 1) |-> Dbl(0, 1)]
    /\ saveMean = [g \in 0..(NumGroups - 1) |-> Dbl(0, 1)]
    /\ saveInvVariance = [g \in 0..(NumGroups - 1) |-> Dbl(0, 1)]
    /\ runningMean = [g \in 0..(NumGroups - 1) |-> InitialRunningMean(g)]
    /\ runningVariance = [g \in 0..(NumGroups - 1) |-> InitialRunningVariance(g)]
    /\ dx_ptr = [i \in 0..(NumElems - 1) |-> Dbl(0, 1)]
    /\ dscale_ptr = [g \in 0..(NumGroups - 1) |-> Dbl(0, 1)]
    /\ dbias_ptr = [g \in 0..(NumGroups - 1) |-> Dbl(0, 1)]
    /\ last = [op |-> "none"]
    /\ calls = 0
    /\ NoWhereLaunch
    /\ NoHostSteps
    /\ out_dev = [i \in 0..(NumElems - 1) |-> Dbl(0, 1)]
    \* idx = yidx (img_offset = yidx) on entry, n = 0
    /\ hip_thread = [t \in Grid |-> [idx |-> t[2], n |-> 0]]
    /\ hip_stores = [i \in 0..(NumElems - 1) |-> <<>>]
    /\ hip_fault = FALSE

\* the loop counters after one iteration of the inner loop:
\* n++, and idx += gridDim.y * blockDim.y when n reaches batchSize
HipAdvance(counters) ==
    IF counters.n + 1 < batchSize THEN [idx |-> counters.idx, n |-> counters.n + 1]
    ELSE [idx |-> counters.idx + ygridsize, n |-> 0]

\* a thread stores the value of one iteration, or touches memory outside a buffer
HipStore(t, s) ==
    /\ IF s.inside
       THEN /\ out_dev' = [out_dev EXCEPT ![s.index] = s.value]
            /\ hip_stores' = [hip_stores EXCEPT ![s.index] = Append(@, t)]
            /\ UNCHANGED hip_fault
       ELSE /\ hip_fault' = TRUE
            /\ UNCHANGED <<out_dev, hip_stores>>
    /\ hip_thread' = [hip_thread EXCEPT ![t] = HipAdvance(hip_thread[t])]
    /\ UNCHANGED <<layerVars, whereVars, stepVars>>

\* one iteration of a thread of MIOpenBatchNormFwdInferSpatialEstHIP
HipSpatialThreadStep(t) ==
    /\ mode = "Spatial"
    /\ hip_thread[t].idx < imageDims
    /\ \E s \in {bn_fwd_infer_spatial(t[1], hip_thread[t].idx, hip_thread[t].n)} :
           HipStore(t, s)

\* one iteration of a thread of MIOpenBatchNormFwdInferPerActivationEstHIP
HipPerActThreadStep(t) ==
    /\ mode = "PerActivation"
    /\ hip_thread[t].idx < imageDims
    /\ \E s \in {bn_fwd_infer_per_activation(t[1], hip_thread[t].idx, hip_thread[t].n)} :
           HipStore(t, s)

\* the threads of the grid run in any interleaving
NextHipInfer ==
    \/ \E t \in DOMAIN hip_thread : HipSpatialThreadStep(t)
    \/ \E t \in DOMAIN hip_thread : HipPerActThreadStep(t)

SpecHipInfer == InitHipInfer /\ [][NextHipInfer]_vars

\* every thread has left its outer loop
HipKernelDone ==
    /\ hip_thread # <<>>
    /\ \A t \in DOMAIN hip_thread : hip_thread[t].idx >= imageDims

\* the inference formula of an element with a given standard deviation
InferenceValue(i, stddev) ==
    RAdd(RDiv(RMul(scale_ptr[GroupOf(i)], RSub(in_ptr[i], estimatedMean[GroupOf(i)])),
              stddev),
         bias_ptr[GroupOf(i)])

\* estimatedVariance + epsilon of the group of element i
ShiftedVariance(i) == RAdd(estimatedVariance[GroupOf(i)], epsilon)

\* what the host inference with supplied estimates writes for the launch's
\* tensors
HostInferenceReference ==
    IF mode = "PerActivation"
    THEN miopenBNFwdInferPerActivationRunHost(
             n_batchs, channels, height, width, in_ptr, out_ptr, scale_ptr, bias_ptr, epsilon,
             TRUE, estimatedMean, estimatedVariance)
    ELSE miopenBNFwdInferSpatialRunHost(
             n_batchs, channels, height, width, in_ptr, out_ptr, scale_ptr, bias_ptr, epsilon,
             TRUE, estimatedMean, estimatedVariance)

\* C21: for every input tensor, estimated mean and variance, scale, bias and
\* epsilon, a finished launch of either HIP inference kernel has written, for
\* every element, y = scale*(x - estimatedMean)/sqrt(estimatedVariance +
\* epsilon) + bias, the reference inference computation, with difference 0.
C21_KernelMatchesReference ==
    HipKernelDone =>
        \A i \in Elems : out_dev[i] = InferenceValue(i, sqrt(ShiftedVariance(i)))

\* C21, amended: a finished launch has written, for every element,
\* y = scale*(x - estimatedMean)/sqrt(|estimatedVariance + epsilon|) + bias,
\* which is what the host inference with supplied estimates writes for
\* every element whose estimatedVariance + epsilon is not negative.
C21_KernelMatchesAbsoluteReference ==
    HipKernelDone =>
        \A r \in {HostInferenceReference} :
            \A i \in Elems :
                /\ out_dev[i] = InferenceValue(i, sqrt(fabs(ShiftedVariance(i))))
                /\ ~Negative(ShiftedVariance(i)) => out_dev[i] = r[i]

\* a finished launch in which one element has a negative estimatedVariance +
\* epsilon and a finite output other than its bias, and another element a
\* positive one
C21_NegativeVarianceLaunch ==
    /\ HipKernelDone
    /\ \E i, j \in Elems :
           /\ Negative(ShiftedVariance(i))
           /\ IsFinite(out_dev[i])
           /\ out_dev[i] # bias_ptr[GroupOf(i)]
           /\ ~IsFinite(InferenceValue(i, sqrt(ShiftedVariance(i))))
           /\ ~Negative(ShiftedVariance(j))
           /\ IsFinite(out_dev[j])
           /\ out_dev[j] # bias_ptr[GroupOf(j)]

\* the iterations the loops of a kernel thread <<xidx, yidx>> go through:
\* idx = yidx, yidx + gridDim.y*blockDim.y, ... below imageDims, and for
\* each idx every n below batchSize
ThreadIterations(t) ==
    {[idx |-> idx, n |-> n] :
        idx \in {j \in 0..(imageDims - 1) : j >= t[2] /\ (j - t[2]) % ygridsize = 0},
        n \in 0..(batchSize - 1)}

\* what thread t stores in an iteration
ThreadStore(t, it) ==
    IF mode = "Spatial" THEN bn_fwd_infer_spatial(t[1], it.idx, it.n)
    ELSE bn_fwd_infer_per_activation(t[1], it.idx, it.n)

\* the parameter elements a spatial thread loads on entry, before its loops
EntryLoadsInside(t) ==
    mode = "Spatial" =>
        /\ InBuffer(t[1], estimatedMean) /\ InBuffer(t[1], estimatedVariance)
        /\ InBuffer(t[1], scale_ptr) /\ InBuffer(t[1], bias_ptr)

\* C29: under the port test's launch geometry no thread of a HIP inference
\* kernel touches an element outside the tensors or the parameter arrays
\* (C elements spatial, C*H*W per-activation), no output index is stored to
\* twice, and when the launch has finished every index in [0, N*C*H*W) has
\* been stored to exactly once, by the one thread whose loops reach it,
\* with the value that thread computes from the inputs alone: the output
\* does not depend on the interleaving.
C29_EveryIndexWrittenOnce ==
    /\ ~hip_fault
    /\ DOMAIN out_dev = 0..(n_batchs * channels * height * width - 1)
    /\ NumEl(estimatedMean) = (IF mode = "Spatial" THEN channels
                               ELSE channels * height * width)
    /\ \A t \in DOMAIN hip_thread : EntryLoadsInside(t)
    /\ \A i \in DOMAIN hip_stores : Len(hip_stores[i]) <= 1
    /\ HipKernelDone =>
           \A i \in DOMAIN out_dev :
               /\ Len(hip_stores[i]) = 1
               /\ \A t \in DOMAIN hip_thread :
                      \A it \in ThreadIterations(t) :
                          ThreadStore(t, it).index = i =>
                              /\ hip_stores[i] = <<t>>
                              /\ out_dev[i] = ThreadStore(t, it).value
               /\ \E t \in DOMAIN hip_thread :
                      \E it \in ThreadIterations(t) : ThreadStore(t, it).index = i

\* a finished launch over several samples and several positions of an image,
\* in which two elements were stored by different threads with different
\* values
C29_InterleavedLaunch ==
    /\ HipKernelDone
    /\ n_batchs > 1
    /\ imageDims > 1
    /\ \E i, j \in DOMAIN out_dev :
           /\ i < j
           /\ hip_stores[i] # hip_stores[j]
           /\ out_dev[i] # out_dev[j]

(***************************************************************************)
(* The indices of the host loops.                                          *)
(***************************************************************************)

\* The loop nest  for cidx, for row, for column, for bidx  of the host
\* functions: in loop order, the coordinates with
\* adjIndex = in_cstride*cidx + width*row + column,
\* index = in_nstride*bidx + adjIndex and
\* xhat_index = in_cstride*bidx + (width*row + column).
HostLoopNest(N, C, H, W) ==
    LET in_nstride == C * H * W
        in_cstride == H * W
    IN  ForLoop(LAMBDA v0, cidx :
            ForLoop(LAMBDA v1, row :
                ForLoop(LAMBDA v2, column :
                    LET adjIndex == in_cstride * cidx + W * row + column
                    IN  ForLoop(LAMBDA v3, bidx :
                            Append(v3, [bidx |-> bidx, cidx |-> cidx, row |-> row,
                                        column |-> column, adjIndex |-> adjIndex,
                                        index |-> in_nstride * bidx + adjIndex,
                                        xhat_index |-> in_cstride * bidx + (W * row + column)]),
                            v2, 0, N),
                    v1, 0, W),
                v0, 0, H),
            <<>>, 0, C)

\* the part of a loop nest that belongs to channel cidx, in loop order
ChannelPart(nest, cidx) == SelectSeq(nest, LAMBDA e : e.cidx = cidx)

\* an output buffer no element of which has been assigned
Unassigned == [i \in Elems |-> NaN]

\* the y (forward) or dx (backward) that the host call recorded in l writes
\* into an unassigned output buffer
OutputOnto(l, buffer) ==
    IF l.op = "ForwardTrain"
    THEN IF mode = "PerActivation"
         THEN miopenBNFwdTrainPerActivationRunHost(
                  n_batchs, channels, height, width, in_ptr, buffer, scale_ptr, bias_ptr,
                  epsilon, l.savemeanvar, l.runningmeanvar, saveMean, saveInvVariance,
                  runningMean, runningVariance, expAvgFactor).out_ptr
         ELSE miopenBNFwdTrainSpatialRunHost(
                  n_batchs, channels, height, width, in_ptr, buffer, scale_ptr, bias_ptr,
                  epsilon, l.savemeanvar, l.runningmeanvar, saveMean, saveInvVariance,
                  runningMean, runningVariance, expAvgFactor).out_ptr
    ELSE IF l.op = "ForwardInfer"
    THEN IF mode = "PerActivation"
         THEN miopenBNFwdInferPerActivationRunHost(
                  n_batchs, channels, height, width, in_ptr, buffer, scale_ptr, bias_ptr,
                  epsilon, l.source # "none", Estimates(l.source).mean,
                  Estimates(l.source).variance)
         ELSE miopenBNFwdInferSpatialRunHost(
                  n_batchs, channels, height, width, in_ptr, buffer, scale_ptr, bias_ptr,
                  epsilon, l.source # "none", Estimates(l.source).mean,
                  Estimates(l.source).variance)
    ELSE IF mode = "PerActivation"
         THEN miopenBNBwdPerActivationRunHost(
                  n_batchs, channels, height, width, in_ptr, dy_ptr, buffer, scale_ptr,
                  dscale_ptr, dbias_ptr, epsilon, l.savedmeanvar, saveMean,
                  saveInvVariance).dx_ptr
         ELSE miopenBNBwdSpatialRunHost(
                  n_batchs, channels, height, width, in_ptr, dy_ptr, buffer, scale_ptr,
                  dscale_ptr, dbias_ptr, epsilon, l.savedmeanvar, saveMean,
                  saveInvVariance).dx_ptr

\* the indices of a loop nest are n*C*H*W + c*H*W + h*W + w, inside the
\* tensor, the group arrays and the xhat scratch vector
NestInRange(nest) ==
    \A k \in DOMAIN nest :
        \A e \in {nest[k]} :
            /\ e.index = e.bidx * channels * height * width + e.cidx * height * width
                             + e.row * width + e.column
            /\ e.index \in 0..(n_batchs * channels * height * width - 1)
            /\ e.index \in DOMAIN in_ptr /\ e.index \in DOMAIN out_ptr
            /\ e.index \in DOMAIN dy_ptr /\ e.index \in DOMAIN dx_ptr
            /\ IF mode = "PerActivation"
               THEN e.adjIndex \in 0..(channels * height * width - 1)
               ELSE e.cidx \in 0..(channels - 1)
            /\ (IF mode = "PerActivation" THEN e.adjIndex ELSE e.cidx) \in DOMAIN scale_ptr
            /\ e.xhat_index \in 0..(n_batchs * height * width - 1)

\* the index map is one-to-one from the coordinates onto [0, N*C*H*W)
NestBijective(nest) ==
    /\ {<<nest[k].bidx, nest[k].cidx, nest[k].row, nest[k].column>> : k \in DOMAIN nest}
           = (0..(n_batchs - 1)) \X (0..(channels - 1)) \X (0..(height - 1))
                 \X (0..(width - 1))
    /\ {nest[k].index : k \in DOMAIN nest} = 0..(n_batchs * channels * height * width - 1)
    /\ \A k, j \in DOMAIN nest : nest[k].index = nest[j].index => k = j
    /\ NumEl(scale_ptr) = (IF mode = "PerActivation" THEN channels * height * width
                           ELSE channels)

\* the element sequences the spatial functions walk are the channel's part
\* of the loop nest
SpatialVisitsFollow(nest) ==
    mode = "Spatial" =>
        \A cidx \in 0..(channels - 1) :
            \A part \in {ChannelPart(nest, cidx)} :
                /\ SpatialTrainVisit(n_batchs, height, width, channels * height * width,
                                     height * width, cidx)
                       = [k \in DOMAIN part |-> part[k].index]
                /\ SpatialInferVisit(n_batchs, height, width, channels * height * width,
                                     height * width, cidx)
                       = [k \in DOMAIN part |-> part[k].index]
                /\ SpatialBwdVisit(n_batchs, height, width, channels * height * width,
                                   height * width, cidx)
                       = [k \in DOMAIN part |->
                              [index |-> part[k].index, xhat_index |-> part[k].xhat_index]]

\* C26: for the layer's N, C, H, W >= 1, every linear index a host call uses
\* is n*C*H*W + c*H*W + h*W + w and lies in [0, N*C*H*W), every per-group
\* index lies within the group array (C*H*W elements per-activation, C
\* spatial), every xhat index lies in [0, N*H*W), the index map is a
\* bijection between (n,c,h,w) and [0, N*C*H*W), and when the call returns
\* every element of y (forward) or dx (backward) holds the value the call
\* assigns to it, whatever the buffer held before.
C26_IndicesInsideAndAssigned ==
    [][calls' = calls + 1 =>
           /\ \A nest \in {HostLoopNest(n_batchs, channels, height, width)} :
                  /\ NestInRange(nest)
                  /\ NestBijective(nest)
                  /\ SpatialVisitsFollow(nest)
           /\ \A r \in {OutputOnto(last', Unassigned)} :
                  \A i \in Elems :
                      IF last'.op = "Backward" THEN dx_ptr'[i] = r[i]
                      ELSE out_ptr'[i] = r[i]]_vars

\* a returned call over a tensor of several samples and several groups in
\* which every element of the output holds a value other than the one the
\* buffer started with
C26_Witness ==
    /\ calls = 1
    /\ n_batchs > 1
    /\ NumGroups > 1
    /\ IF IsBackward(last)
       THEN \A i \in Elems : IsFinite(dx_ptr[i]) /\ dx_ptr[i] # Dbl(0, 1)
       ELSE \A i \in Elems : IsFinite(out_ptr[i]) /\ out_ptr[i] # Dbl(0, 1)

(***************************************************************************)
(* The blocked variant against the plain one.                              *)
(***************************************************************************)
\* what the memory behind a buffer may hold when a blocked loop reads it
MemoryBeyond == {Dbl(0, 1), Dbl(7, 1)}

\* the elements the blocked loops of channel cidx read or write in a call
BlockedTouched(op, cidx) ==
    LET all == BlockedVisit(n_batchs, channels * height * width, height * width, cidx)
        Indices(visit) == {visit[k].index : k \in 1..Len(visit)}
    IN  IF op = "ForwardInfer" THEN Indices(all)
        ELSE IF op = "ForwardTrain" THEN Indices(InsideImage(all, height * width))
        ELSE Indices(InsideImage(all, height * width))
                 \cup Indices(InsideTensor(all, channels * height * width * n_batchs))

\* the blocked variant of the call made in this step gives what the call gave
BlockedStepMatches ==
    /\ last'.op = "ForwardTrain" =>
           \E r \in {miopenBNFwdTrainSpatialRunHostBlocked(
                        n_batchs, channels, height, width, in_ptr, out_ptr, scale_ptr,
                        bias_ptr, epsilon, last'.savemeanvar, last'.runningmeanvar,
                        saveMean, saveInvVariance, runningMean, runningVariance,
                        expAvgFactor)} :
               /\ r.out_ptr = out_ptr'
               /\ r.saveMean = saveMean'
               /\ r.saveInvVariance = saveInvVariance'
               /\ r.runningMean = runningMean'
               /\ r.runningVariance = runningVariance'
    /\ (last'.op = "ForwardInfer" /\ last'.source = "none") =>
           \A junk \in MemoryBeyond :
               miopenBNFwdInferSpatialRunHostBlocked(
                   n_batchs, channels, height, width, in_ptr, out_ptr, scale_ptr, bias_ptr,
                   epsilon, FALSE, estimatedMean, estimatedVariance, junk) = out_ptr'
    /\ (last'.op = "Backward" /\ ~last'.savedmeanvar) =>
           \E r \in {miopenBNBwdSpatialRunHostBlocked(
                        n_batchs, channels, height, width, in_ptr, dy_ptr, dx_ptr,
                        scale_ptr, dscale_ptr, dbias_ptr, epsilon, FALSE, saveMean,
                        saveInvVariance)} :
               /\ r.dx_ptr = dx_ptr'
               /\ r.dscale_ptr = dscale_ptr'
               /\ r.dbias_ptr = dbias_ptr'
    /\ \A cidx \in 0..(channels - 1) :
           \A index \in BlockedTouched(last'.op, cidx) :
               index \in Elems /\ GroupOf(index) = cidx

\* C28: in every spatial ForwardTrain, ForwardInfer without estimates and
\* Backward with recomputed statistics, the blocked variant (MIO_HEIRARCH_SEL
\* = 1, MIO_BN_DIST = 32) produces the y, saved and running statistics, dx,
\* dscale and dbias of the plain variant, and touches no element outside the
\* channel it processes.
C28_BlockedMatchesPlain ==
    [][(calls' = calls + 1 /\ mode = "Spatial") => BlockedStepMatches]_vars

\* a first spatial ForwardTrain on an image that does not fill a block, after
\* which the blocked variant would have left another y than the plain one
C28_BlockedTrainDiffers ==
    /\ calls = 1
    /\ mode = "Spatial"
    /\ last.op = "ForwardTrain"
    /\ (height * width) % MIO_BN_DIST # 0
    /\ \E r \in {miopenBNFwdTrainSpatialRunHostBlocked(
                    n_batchs, channels, height, width, in_ptr,
                    [i \in Elems |-> Dbl(0, 1)], scale_ptr, bias_ptr, epsilon,
                    last.savemeanvar, last.runningmeanvar,
                    [g \in Groups |-> Dbl(0, 1)], [g \in Groups |-> Dbl(0, 1)],
                    [g \in Groups |-> InitialRunningMean(g)],
                    [g \in Groups |-> InitialRunningVariance(g)], expAvgFactor)} :
           r.out_ptr # out_ptr

(***************************************************************************)
(* A host call followed one loop iteration at a time.  A group is one      *)
(* pass of the body of the column loop (per-activation) or of the channel  *)
(* loop (spatial); a step is one iteration of a mini-batch loop of that    *)
(* body together with the statements between it and the next loop.  The   *)
(* functions followed are miopenBNFwdTrainPerActivationRunHost,            *)
(* miopenBNBwdPerActivationRunHost and the else branch of                  *)
(* miopenBNBwdSpatialRunHost.                                              *)
(***************************************************************************)
\* the elements of group g in the order of its mini-batch loops, each with
\* its place in the xhat vector
GroupVisit(g) ==
    IF mode = "PerActivation"
    THEN [k \in 1..n_batchs |->
             [index |-> channels * height * width * (k - 1) + g,
              xhat_index |-> height * width * (k - 1) + (g % (height * width))]]
    ELSE SpatialBwdVisit(n_batchs, height, width, channels * height * width,
                         height * width, g)

\* the loop condition with a break after the first iteration
LastOfPass_Break(g, k) == TRUE

\* bidx < n_batchs (and row < height, column < width in the spatial
\* function) fails after this iteration: it is the last of its loop
LastOfPass(g, k) == k + 1 = Len(GroupVisit(g))

\* the loops of a group body, in the order of the text
FirstPass == IF host_call.op = "ForwardTrain" THEN "mean" ELSE "sums"

\* the passes that read what the first loop of the group accumulated
SecondPhase == {"variance", "normalize", "dx"}

\* the values the functions may find in dscale_ptr and dbias_ptr: zero, or
\* what an earlier call left
PriorGradient(prior) == [g \in 0..(NumGroups - 1) |-> Dbl(prior, 1)]

\* the groups run by the cidx/row/column loops in their order, or by
\* workers that each take groups and interleave their iterations
InitHostSteps(schedule) ==
    /\ NoWhereLaunch
    /\ NoHipLaunch
    /\ mode \in {"PerActivation", "Spatial"}
    /\ n_batchs \in 1..MaxDim
    /\ channels \in 1..MaxDim
    /\ height \in 1..MaxDim
    /\ width \in 1..MaxDim
    /\ NumElems <= MaxElems
    /\ epsilon = Dbl(1, 4)
    /\ expAvgFactor = Dbl(1, 4)
    /\ \E seed \in 0..MaxSeed :
           /\ in_ptr = [i \in 0..(NumElems - 1) |-> XPattern(seed, i)]
           /\ dy_ptr = [i \in 0..(NumElems - 1) |-> DyPattern(seed, i)]
           /\ scale_ptr = [g \in 0..(NumGroups - 1) |-> ScalePattern(seed, g)]
           /\ bias_ptr = [g \in 0..(NumGroups - 1) |-> BiasPattern(seed, g)]
    /\ estimatedMean = [g \in 0..(NumGroups - 1) |-> Dbl(g + 1, 2)]
    /\ estimatedVariance = [g \in 0..(NumGroups - 1) |-> Dbl(g + 3, 4)]
    /\ out_ptr = [i \in 0..(NumElems - 1) |-> Dbl(0, 1)]
    /\ runningMean = [g \in 0..(NumGroups - 1) |-> InitialRunningMean(g)]
    /\ runningVariance = [g \in 0..(NumGroups - 1) |-> InitialRunningVariance(g)]
    /\ dx_ptr = [i \in 0..(NumElems - 1) |-> Dbl(0, 1)]
    /\ last = [op |-> "none"]
    /\ calls = 0
    /\ \E op \in {"ForwardTrain", "Backward"}, flag1 \in BOOLEAN, flag2 \in BOOLEAN,
          prior \in {0, 1} :
           /\ mode = "Spatial" => op = "Backward" /\ ~flag1
           /\ op = "Backward" => ~flag2
           /\ op = "ForwardTrain" => prior = 0
           /\ host_call = [op |-> op, schedule |-> schedule, prior |-> prior,
                           savemeanvar |-> (op = "ForwardTrain" /\ flag1),
                           runningmeanvar |-> (op = "ForwardTrain" /\ flag2),
                           savedmeanvar |-> (op = "Backward" /\ flag1)]
           \* Backward is given the statistics a ForwardTrain saved
           /\ saveMean = [g \in 0..(NumGroups - 1) |->
                             IF op = "Backward" THEN GroupMean(g) ELSE Dbl(0, 1)]
           /\ saveInvVariance = [g \in 0..(NumGroups - 1) |->
                                    IF op = "Backward" THEN GroupInvVariance(g)
                                    ELSE Dbl(0, 1)]
           /\ dscale_ptr = PriorGradient(prior)
           /\ dbias_ptr = PriorGradient(prior)
           /\ group_pc = [g \in 0..(NumGroups - 1) |->
                             [pass |-> FirstPass, k |-> 0]]
    /\ group_local = [g \in 0..(NumGroups - 1) |->
                         [mean |-> Dbl(0, 1), variance |-> Dbl(0, 1),
                          invVar |-> Dbl(0, 1), dxhat |-> Dbl(0, 1),
                          dxhathat |-> Dbl(0, 1)]]
    /\ xhat_vec = [i \in 0..(n_batchs * height * width - 1) |-> Dbl(0, 1)]
    /\ xhat_writer = [i \in 0..(n_batchs * height * width - 1) |-> -1]
    /\ accumulated = [g \in 0..(NumGroups - 1) |-> {}]

\* group g may make its next iteration: always when workers run the groups;
\* in the loops of the function only when the groups before it are through
Scheduled(g) ==
    /\ group_pc[g].pass # "done"
    /\ host_call.schedule = "loop" =>
           \A h \in 0..(g - 1) : group_pc[h].pass = "done"

\* the element of this iteration
Elem(g) == GroupVisit(g)[group_pc[g].k + 1]

\* bidx++, or on to the next loop of the body
Advance(g, next) ==
    group_pc' = [group_pc EXCEPT ![g] =
                    IF LastOfPass(g, @.k) THEN [pass |-> next, k |-> 0]
                    ELSE [pass |-> @.pass, k |-> @.k + 1]]

\* #1 calculate the mean: mean_accum += in_ptr[index]; after the loop
\* mean_accum /= double(n_batchs), saveMean and runningMean
FwdMeanStep(g) ==
    /\ host_call.op = "ForwardTrain"
    /\ Scheduled(g)
    /\ group_pc[g].pass = "mean"
    /\ \E sum \in {RAdd(group_local[g].mean, in_ptr[Elem(g).index])} :
           IF LastOfPass(g, group_pc[g].k)
           THEN \E mean_accum \in {RDiv(sum, Dbl(n_batchs, 1))} :
                    /\ group_local' = [group_local EXCEPT ![g].mean = mean_accum]
                    /\ saveMean' = PerActTrainSave(host_call.savemeanvar, saveMean, g,
                                                   mean_accum)
                    /\ runningMean' = PerActTrainRunningMean(
                                          host_call.runningmeanvar, runningMean, g,
                                          mean_accum, expAvgFactor)
           ELSE /\ group_local' = [group_local EXCEPT ![g].mean = sum]
                /\ UNCHANGED <<saveMean, runningMean>>
    /\ accumulated' = [accumulated EXCEPT ![g] = @ \cup {Elem(g).index}]
    /\ Advance(g, "variance")
    /\ UNCHANGED <<whereVars, hipVars, shapeVars, inputVars, out_ptr, saveInvVariance,
                   runningVariance, bwdVars, last, calls, host_call, xhat_vec,
                   xhat_writer>>

\* #2 calculate the variances: elemStd = in_ptr[index] - mean_accum;
\* variance_accum += elemStd*elemStd; after the loop variance_accum /=
\* double(n_batchs), runningVariance, #3 elemInvVar and saveInvVariance
FwdVarianceStep(g) ==
    /\ host_call.op = "ForwardTrain"
    /\ Scheduled(g)
    /\ group_pc[g].pass = "variance"
    /\ \E sum \in {RAdd(group_local[g].variance,
                        SquaredDeviation(in_ptr[Elem(g).index], group_local[g].mean))} :
           IF LastOfPass(g, group_pc[g].k)
           THEN \E variance_accum \in {RDiv(sum, Dbl(n_batchs, 1))} :
                \E elemInvVar \in {PerActTrainInvVar(variance_accum, epsilon)} :
                    /\ group_local' = [group_local EXCEPT ![g].variance = variance_accum,
                                                          ![g].invVar = elemInvVar]
                    /\ runningVariance' = PerActTrainRunningVariance(
                                              host_call.runningmeanvar, runningVariance,
                                              g, variance_accum, expAvgFactor, n_batchs)
                    /\ saveInvVariance' = PerActTrainSave(host_call.savemeanvar,
                                                          saveInvVariance, g, elemInvVar)
           ELSE /\ group_local' = [group_local EXCEPT ![g].variance = sum]
                /\ UNCHANGED <<runningVariance, saveInvVariance>>
    /\ Advance(g, "normalize")
    /\ UNCHANGED <<whereVars, hipVars, shapeVars, inputVars, out_ptr, saveMean,
                   runningMean, bwdVars, last, calls, host_call, xhat_vec, xhat_writer,
                   accumulated>>

\* #4 apply the normalization, #5 Gamma and Beta adjust
FwdNormalizeStep(g) ==
    /\ host_call.op = "ForwardTrain"
    /\ Scheduled(g)
    /\ group_pc[g].pass = "normalize"
    /\ \E index \in {Elem(g).index} :
       \E inhat \in {RMul(RSub(in_ptr[index], group_local[g].mean),
                          group_local[g].invVar)} :
           out_ptr' = [out_ptr EXCEPT ![index] =
                          RAdd(RMul(scale_ptr[g], inhat), bias_ptr[g])]
    /\ Advance(g, "done")
    /\ UNCHANGED <<whereVars, hipVars, shapeVars, inputVars, saveMean, saveInvVariance,
                   runningMean, runningVariance, bwdVars, last, calls, host_call,
                   group_local, xhat_vec, xhat_writer, accumulated>>

\* the scalars of the per-activation Backward body when its first loop
\* begins: mean and elemInvVar saved or recomputed, dxhat = dxhathat = 0.
PerActEntered(g) ==
    IF group_pc[g].k > 0 THEN group_local[g]
    ELSE Local(IF host_call.savedmeanvar THEN saveMean[g]
               ELSE PerActBwdMean(n_batchs, channels * height * width, in_ptr, g),
               LAMBDA mean :
             [mean |-> mean, variance |-> Dbl(0, 1),
              invVar |-> IF host_call.savedmeanvar THEN saveInvVariance[g]
                         ELSE PerActBwdInvVar(n_batchs, channels * height * width,
                                              in_ptr, g, mean, epsilon),
              dxhat |-> Dbl(0, 1), dxhathat |-> Dbl(0, 1)])

\* first mini-batch loop of the per-activation Backward body: stores xhat,
\* adds into dbias_ptr, dscale_ptr, dxhat and dxhathat; after the loop
\* dscale_ptr[adjIndex] /= double(n_batchs)
PerActSumsStep(g) ==
    /\ host_call.op = "Backward"
    /\ mode = "PerActivation"
    /\ Scheduled(g)
    /\ group_pc[g].pass = "sums"
    /\ \E e \in {Elem(g)}, loc \in {PerActEntered(g)} :
       \E xh \in {RMul(RSub(in_ptr[e.index], loc.mean), loc.invVar)} :
       \E tmp1 \in {RMul(scale_ptr[g], dy_ptr[e.index])} :
           /\ xhat_vec' = [xhat_vec EXCEPT ![e.xhat_index] = xh]
           /\ xhat_writer' = [xhat_writer EXCEPT ![e.xhat_index] = g]
           /\ dbias_ptr' = [dbias_ptr EXCEPT ![g] = RAdd(@, dy_ptr[e.index])]
           /\ \E sum \in {RAdd(dscale_ptr[g], RMul(xh, dy_ptr[e.index]))} :
                  dscale_ptr' = [dscale_ptr EXCEPT ![g] =
                                    IF LastOfPass(g, group_pc[g].k)
                                    THEN RDiv(sum, Dbl(n_batchs, 1)) ELSE sum]
           /\ group_local' = [group_local EXCEPT ![g] =
                                 [loc EXCEPT !.dxhat = RAdd(@, tmp1),
                                             !.dxhathat = RAdd(@, RMul(tmp1, xh))]]
           /\ accumulated' = [accumulated EXCEPT ![g] = @ \cup {e.index}]
    /\ Advance(g, "dx")
    /\ UNCHANGED <<whereVars, hipVars, shapeVars, inputVars, fwdVars, dx_ptr, last, calls,
                   host_call>>

\* second mini-batch loop of the per-activation Backward body
PerActDxStep(g) ==
    /\ host_call.op = "Backward"
    /\ mode = "PerActivation"
    /\ Scheduled(g)
    /\ group_pc[g].pass = "dx"
    /\ \E e \in {Elem(g)}, loc \in {group_local[g]} :
       \E tmp1 \in {RAdd(RMul(xhat_vec[e.xhat_index], loc.dxhathat), loc.dxhat)} :
       \E tmp2 \in {RSub(RMul(Dbl(n_batchs, 1), loc.dxhat), tmp1)} :
       \E tmp3 \in {RDiv(loc.invVar, Dbl(n_batchs, 1))} :
           dx_ptr' = [dx_ptr EXCEPT ![e.index] = RMul(tmp3, tmp2)]
    /\ Advance(g, "done")
    /\ UNCHANGED <<whereVars, hipVars, shapeVars, inputVars, fwdVars, dscale_ptr,
                   dbias_ptr, last, calls, host_call, group_local, xhat_vec, xhat_writer,
                   accumulated>>

\* the scalars of the spatial Backward body, else branch, when the loops
\* that store xhat begin: mean and invVar of the channel from loops #1, #2
SpatialEntered(g) ==
    IF group_pc[g].k > 0 THEN group_local[g]
    ELSE Local(SpatialBwdMean(GroupVisit(g), in_ptr,
                              Dbl(n_batchs * height * width, 1)),
               LAMBDA mean :
             [mean |-> mean, variance |-> Dbl(0, 1),
              invVar |-> SpatialBwdInvVar(GroupVisit(g), in_ptr, mean, epsilon,
                                          Dbl(n_batchs * height * width, 1)),
              dxhat |-> Dbl(0, 1), dxhathat |-> Dbl(0, 1)])

\* dscale_ptr[cidx] = 0.; dbias_ptr[cidx] = 0. before the first iteration;
\* the iteration stores xhat and adds into dbias_ptr and dscale_ptr; after
\* the loops dscale_ptr[cidx] /= NHW
SpatialSumsStep(g) ==
    /\ host_call.op = "Backward"
    /\ mode = "Spatial"
    /\ Scheduled(g)
    /\ group_pc[g].pass = "sums"
    /\ \E e \in {Elem(g)}, loc \in {SpatialEntered(g)} :
       \E xh \in {RMul(RSub(in_ptr[e.index], loc.mean), loc.invVar)} :
           /\ xhat_vec' = [xhat_vec EXCEPT ![e.xhat_index] = xh]
           /\ xhat_writer' = [xhat_writer EXCEPT ![e.xhat_index] = g]
           /\ dbias_ptr' = [dbias_ptr EXCEPT ![g] =
                               RAdd(IF group_pc[g].k = 0 THEN Dbl(0, 1) ELSE @,
                                    dy_ptr[e.index])]
           /\ \E sum \in {RAdd(IF group_pc[g].k = 0 THEN Dbl(0, 1) ELSE dscale_ptr[g],
                               RMul(xh, dy_ptr[e.index]))} :
                  dscale_ptr' = [dscale_ptr EXCEPT ![g] =
                                    IF LastOfPass(g, group_pc[g].k)
                                    THEN RDiv(sum, Dbl(n_batchs * height * width, 1))
                                    ELSE sum]
           /\ group_local' = [group_local EXCEPT ![g] = loc]
           /\ accumulated' = [accumulated EXCEPT ![g] = @ \cup {e.index}]
    /\ Advance(g, "dx")
    /\ UNCHANGED <<whereVars, hipVars, shapeVars, inputVars, fwdVars, dx_ptr, last, calls,
                   host_call>>

\* last loops of the spatial Backward body: tmp1 = NHW*dy - dbias;
\* tmp2 = -xhat*dscale; tmp3 = (scale*invVar)/NHW; dx = tmp3*(tmp2+tmp1)
SpatialDxStep(g) ==
    /\ host_call.op = "Backward"
    /\ mode = "Spatial"
    /\ Scheduled(g)
    /\ group_pc[g].pass = "dx"
    /\ \E e \in {Elem(g)}, NHW \in {Dbl(n_batchs * height * width, 1)} :
       \E tmp1 \in {RSub(RMul(NHW, dy_ptr[e.index]), dbias_ptr[g])} :
       \E tmp2 \in {RMul(RNeg(xhat_vec[e.xhat_index]), dscale_ptr[g])} :
       \E tmp3 \in {RDiv(RMul(scale_ptr[g], group_local[g].invVar), NHW)} :
           dx_ptr' = [dx_ptr EXCEPT ![e.index] = RMul(tmp3, RAdd(tmp2, tmp1))]
    /\ Advance(g, "done")
    /\ UNCHANGED <<whereVars, hipVars, shapeVars, inputVars, fwdVars, dscale_ptr,
                   dbias_ptr, last, calls, host_call, group_local, xhat_vec, xhat_writer,
                   accumulated>>

NextHostSteps ==
    \/ \E g \in DOMAIN group_pc : FwdMeanStep(g)
    \/ \E g \in DOMAIN group_pc : FwdVarianceStep(g)
    \/ \E g \in DOMAIN group_pc : FwdNormalizeStep(g)
    \/ \E g \in DOMAIN group_pc : PerActSumsStep(g)
    \/ \E g \in DOMAIN group_pc : PerActDxStep(g)
    \/ \E g \in DOMAIN group_pc : SpatialSumsStep(g)
    \/ \E g \in DOMAIN group_pc : SpatialDxStep(g)

\* the function as written: the groups one after the other
SpecHostLoop == InitHostSteps("loop") /\ [][NextHostSteps]_vars

\* the groups handed to workers
SpecHostWorkers == InitHostSteps("workers") /\ [][NextHostSteps]_vars

\* the call has returned
HostCallDone == \A g \in DOMAIN group_pc : group_pc[g].pass = "done"

\* what the function returns for the call of host_call when dscale_ptr and
\* dbias_ptr held prior on entry
HostCallResult(prior) ==
    IF host_call.op = "ForwardTrain"
    THEN miopenBNFwdTrainPerActivationRunHost(
             n_batchs, channels, height, width, in_ptr,
             [i \in 0..(NumElems - 1) |-> Dbl(0, 1)], scale_ptr, bias_ptr, epsilon,
             host_call.savemeanvar, host_call.runningmeanvar,
             [g \in 0..(NumGroups - 1) |-> Dbl(0, 1)],
             [g \in 0..(NumGroups - 1) |-> Dbl(0, 1)],
             [g \in 0..(NumGroups - 1) |-> InitialRunningMean(g)],
             [g \in 0..(NumGroups - 1) |-> InitialRunningVariance(g)], expAvgFactor)
    ELSE IF mode = "PerActivation"
    THEN miopenBNBwdPerActivationRunHost(
             n_batchs, channels, height, width, in_ptr, dy_ptr,
             [i \in 0..(NumElems - 1) |-> Dbl(0, 1)], scale_ptr, PriorGradient(prior),
             PriorGradient(prior), epsilon, host_call.savedmeanvar, saveMean,
             saveInvVariance)
    ELSE miopenBNBwdSpatialRunHost(
             n_batchs, channels, height, width, in_ptr, dy_ptr,
             [i \in 0..(NumElems - 1) |-> Dbl(0, 1)], scale_ptr, PriorGradient(prior),
             PriorGradient(prior), epsilon, host_call.savedmeanvar, saveMean,
             saveInvVariance)

\* the buffers hold the result r of the call
BuffersHold(r) ==
    IF host_call.op = "ForwardTrain"
    THEN /\ out_ptr = r.out_ptr
         /\ saveMean = r.saveMean
         /\ saveInvVariance = r.saveInvVariance
         /\ runningMean = r.runningMean
         /\ runningVariance = r.runningVariance
    ELSE /\ dx_ptr = r.dx_ptr
         /\ dscale_ptr = r.dscale_ptr
         /\ dbias_ptr = r.dbias_ptr

\* the elements of group g
GroupMembers(g) == {GroupVisit(g)[k].index : k \in 1..Len(GroupVisit(g))}

\* the iteration group g is about to make reads only what is complete: in a
\* loop after the first, every element of the group has been accumulated
\* (and in ForwardTrain the mean read is the mean of the whole group); in
\* the dx loop, the xhat element read was stored by this group in this call
StepInOrder(g) ==
    /\ group_pc[g].pass \in SecondPhase =>
           /\ accumulated[g] = GroupMembers(g)
           /\ host_call.op = "ForwardTrain" =>
                  group_local[g].mean
                      = PerActTrainMean(n_batchs, channels * height * width, in_ptr, g)
    /\ group_pc[g].pass = "dx" => xhat_writer[Elem(g).xhat_index] = g

\* C25: in the function as written, every iteration of a loop after the
\* first loop of a group is made after the first loop has accumulated all M
\* elements of that group - variance and normalisation read the complete
\* mean, dx is computed from complete group sums - and every xhat value the
\* second Backward loop reads was stored by the first loop of the same
\* group in the same call.
C25_TwoPhaseOrder ==
    [][\A g \in DOMAIN group_pc : group_pc'[g] # group_pc[g] => StepInOrder(g)]_vars

\* a spatial Backward in which a channel after the first, of at least two
\* elements, is inside its dx loop, reading the xhat that the channels
\* before it had stored to as well
C25_LaterGroupReadsOwnXhat ==
    /\ host_call # <<>>
    /\ host_call.schedule = "loop"
    /\ host_call.op = "Backward"
    /\ mode = "Spatial"
    /\ \E g \in DOMAIN group_pc :
           /\ g > 0
           /\ group_pc[g].pass = "dx"
           /\ group_pc[g].k > 0
           /\ Cardinality(accumulated[g]) >= 2
           /\ \A k \in 1..Len(GroupVisit(g)) : xhat_writer[GroupVisit(g)[k].xhat_index] = g

\* C24: when the groups of a call are handed to workers whose iterations
\* interleave in any way (the order of the groups is one such way), the
\* call ends with the y, saved and running statistics, or dx, dscale and
\* dbias, of the function run as written, and the result of a group is
\* determined by the elements, parameters and statistics of that group: it
\* is the same whatever dscale_ptr and dbias_ptr held on entry.
C24_GroupsIndependent ==
    (host_call # <<>> /\ HostCallDone) =>
        /\ BuffersHold(HostCallResult(host_call.prior))
        /\ BuffersHold(HostCallResult(0))

\* a Backward on zeroed buffers, run by workers, that has returned another
\* dx than the function run as written
C24_InterleavedDxDiffers ==
    /\ host_call # <<>>
    /\ host_call.schedule = "workers"
    /\ host_call.op = "Backward"
    /\ host_call.prior = 0
    /\ HostCallDone
    /\ dx_ptr # HostCallResult(0).dx_ptr
    /\ dscale_ptr = HostCallResult(0).dscale_ptr
    /\ dbias_ptr = HostCallResult(0).dbias_ptr

====
